---- MODULE Spec2Model ----
(***************************************************************************)
(* Administration-to-assignment synchronisation of levante-firebase-       *)
(* functions: the synchronous path of upsertAdministrationHandler          *)
(* (createAssignments / updateAssignments), the chunk handler              *)
(* updateAssignmentsForOrgChunkHandler, the task-dispatched chunk function *)
(* and the change-triggered handler of administration documents.           *)
(***************************************************************************)
EXTENDS Integers, Sequences, FiniteSets, TLC

VARIABLES admins, stats, asg, assigned, administrationsCreated, userOrgs,
          archived, op, lastInv, events, tasks, faults, nextId, opCount,
          triggerDeployed, calc, orgDocs, delivered, preRead, roster

vars == <<admins, stats, asg, assigned, administrationsCreated, userOrgs,
          archived, op, lastInv, events, tasks, faults, nextId, opCount,
          triggerDeployed, calc, orgDocs, delivered, preRead, roster>>

(***************************************************************************)
(* Bounds of the model.                                                    *)
(***************************************************************************)
MaxAdmins == 2
MaxOps == 2
MaxFaults == 2

(***************************************************************************)
(* Program constants, scaled down.                                         *)
(***************************************************************************)
MAX_TRANSACTIONS == 2
ORG_CHUNK_SIZE == 1

(***************************************************************************)
(* The seeded world: one site, one school in it, one class in the school,  *)
(* three participants.                                                     *)
(***************************************************************************)
Users == {"u1", "u2", "u3"}
UserOrder == <<"u1", "u2", "u3">>
Orgs == {"S1", "SC1", "CL1"}
OrgOrder == <<"S1", "SC1", "CL1">>
AdminIds == 1..MaxAdmins

\* the memberships the runs start from: u1 and u2 belong to the class only,
\* u3 to the class only or to the class, its school and its site
Memberships ==
  {uo \in [Users -> {{"CL1"}, {"S1", "SC1", "CL1"}}] : uo["u1"] = {"CL1"} /\ uo["u2"] = {"CL1"}}

Children(o) ==
  CASE o = "S1" -> {"SC1"}
    [] o = "SC1" -> {"CL1"}
    [] OTHER -> {}

ExistingOrgs == Orgs

(***************************************************************************)
(* Pure helpers.                                                           *)
(***************************************************************************)
RECURSIVE Chunk(_, _)
Chunk(s, n) ==
  IF Len(s) = 0 THEN << >>
  ELSE IF Len(s) <= n THEN <<s>>
  ELSE <<SubSeq(s, 1, n)>> \o Chunk(SubSeq(s, n + 1, Len(s)), n)

RECURSIVE Flatten(_)
Flatten(ss) == IF Len(ss) = 0 THEN << >> ELSE Head(ss) \o Flatten(Tail(ss))

Range(s) == {s[k] : k \in 1..Len(s)}

SeqOfOrgs(S) == SelectSeq(OrgOrder, LAMBDA o : o \in S)
SeqOfUsers(S) == SelectSeq(UserOrder, LAMBDA u : u \in S)

getOnlyExistingOrgs(orgs) == orgs \cap ExistingOrgs

\* an expansion that adds the children of the given units only
getExhaustiveOrgsIn_OneLevel(ch, orgs) == orgs \cup UNION {ch[o] : o \in orgs}

\* the closure of a set of units under a child relation ch
RECURSIVE getExhaustiveOrgsIn(_, _)
getExhaustiveOrgsIn(ch, orgs) ==
  LET next == orgs \cup UNION {ch[o] : o \in orgs}
  IN IF next = orgs THEN orgs ELSE getExhaustiveOrgsIn(ch, next)

getExhaustiveOrgs(orgs) == getExhaustiveOrgsIn([o \in Orgs |-> Children(o)], orgs)

\* one chunk per group of ORG_CHUNK_SIZE units, each chunk a set of org ids
chunkOrgs(orgs, size) ==
  LET cs == Chunk(SeqOfOrgs(orgs), size)
  IN [k \in 1..Len(cs) |-> Range(cs[k])]

\* a lookup that returns the archived users whatever the flag
getUsersFromOrgsIn_AllUsers(uo, ar, orgs, includeArchived) ==
  SeqOfUsers({u \in Users : uo[u] \cap orgs # {}})

getUsersFromOrgsIn(uo, ar, orgs, includeArchived) ==
  SeqOfUsers({u \in Users : /\ uo[u] \cap orgs # {}
                            /\ (includeArchived \/ ~ar[u])})


(***************************************************************************)
(* Store writes on the users' assignment sub-records and index fields.     *)
(***************************************************************************)
NoAssignment == [exists |-> FALSE, def |-> 0]

\* create the sub-record unless one exists already; add the id to the index
addAssignmentToUsers(st, us, a, def) ==
  [st EXCEPT
     !.asg = [u \in Users |->
                IF u \in us /\ ~st.asg[u][a].exists
                THEN [st.asg[u] EXCEPT ![a] = [exists |-> TRUE, def |-> def]]
                ELSE st.asg[u]],
     !.assigned = [u \in Users |->
                IF u \in us THEN st.assigned[u] \cup {a} ELSE st.assigned[u]]]

\* merge the administration's definition into the sub-record
updateAssignmentForUsers(st, us, a, def) ==
  [st EXCEPT
     !.asg = [u \in Users |->
                IF u \in us
                THEN [st.asg[u] EXCEPT ![a] = [exists |-> TRUE, def |-> def]]
                ELSE st.asg[u]],
     !.assigned = [u \in Users |->
                IF u \in us THEN st.assigned[u] \cup {a} ELSE st.assigned[u]]]

\* delete the sub-record and strip the id from the index
removeAssignmentFromUsers(st, us, a) ==
  [st EXCEPT
     !.asg = [u \in Users |->
                IF u \in us THEN [st.asg[u] EXCEPT ![a] = NoAssignment]
                ELSE st.asg[u]],
     !.assigned = [u \in Users |->
                IF u \in us THEN st.assigned[u] \ {a} ELSE st.assigned[u]]]

removeOrgsFromAssignments(st, us, a) == removeAssignmentFromUsers(st, us, a)

\* one atomic increment of the assigned-users counter
updateAdministrationStatsForOrgChunk(st, a, n) ==
  [st EXCEPT !.stats = [st.stats EXCEPT ![a] = @ + n]]

\* compensating deletes that decrement the counter on every run
rollbackAssignmentCreation_AlwaysDecrements(st, userIds, a, withChunk) ==
  LET del == removeAssignmentFromUsers(st, Range(userIds), a)
  IN [del EXCEPT !.stats = [del.stats EXCEPT ![a] = @ - Len(userIds)]]

\* compensating deletes; the counter is decremented only when the org chunk
\* and the administration data are handed in
rollbackAssignmentCreation(st, userIds, a, withChunk) ==
  LET del == removeAssignmentFromUsers(st, Range(userIds), a)
  IN IF withChunk
     THEN [del EXCEPT !.stats = [del.stats EXCEPT ![a] = @ - Len(userIds)]]
     ELSE del


(***************************************************************************)
(* updateAssignmentsForOrgChunkHandler.  A store error is a choice of the  *)
(* place where the first error is raised:                                  *)
(*   "resolve"  the first transaction fails before its callback has        *)
(*              pushed anything (getUsersFromOrgs throws, or the commit    *)
(*              of a transaction that wrote nothing fails)                 *)
(*   "tx1"      the first transaction fails after its callback pushed the  *)
(*              users it was about to write                                *)
(*   "sub1",..  the k-th user sub-chunk transaction fails                  *)
(*   "stats"    updateAdministrationStatsForOrgChunk fails                 *)
(* rbFault: the handler's own rollbackAssignmentCreation fails.            *)
(***************************************************************************)
FaultPoints == {"none", "resolve", "tx1", "sub1", "sub2", "stats"}

SubIndex(f) == CASE f = "sub1" -> 1 [] f = "sub2" -> 2 [] OTHER -> 0

Store(asgv, asnv, statsv) == [asg |-> asgv, assigned |-> asnv, stats |-> statsv]

\* a first transaction that forgets to save the users for the second loop
remainingUsers_Dropped(usersToUpdate) == << >>

\* the user sub-chunks of the second loop (empty when the first transaction
\* wrote the users itself)
remainingUsers(usersToUpdate) ==
  IF Len(usersToUpdate) # 0 /\ Len(usersToUpdate) > MAX_TRANSACTIONS
  THEN usersToUpdate ELSE << >>

FaultPossible(usersToUpdate, mode, fault) ==
  LET n == Len(usersToUpdate)
      subs == Chunk(remainingUsers(usersToUpdate), MAX_TRANSACTIONS)
  IN CASE fault = "none" -> TRUE
       [] fault = "resolve" -> TRUE
       [] fault = "tx1" -> n # 0 /\ n <= MAX_TRANSACTIONS
       [] fault = "stats" -> mode = "add" /\ n > 0
       [] OTHER -> SubIndex(fault) >= 1 /\ SubIndex(fault) <= Len(subs)

\* a first transaction that writes the users whatever their number
firstTransactionUsers_Unbounded(usersToUpdate) == usersToUpdate

\* the users the first transaction writes itself
firstTransactionUsers(usersToUpdate) ==
  IF Len(usersToUpdate) # 0 /\ Len(usersToUpdate) <= MAX_TRANSACTIONS
  THEN usersToUpdate ELSE << >>

\* users whose write was committed before the error (all of them without one)
CommittedUsers(usersToUpdate, fault) ==
  LET subs == Chunk(remainingUsers(usersToUpdate), MAX_TRANSACTIONS)
  IN CASE fault \in {"none", "stats"} ->
            firstTransactionUsers(usersToUpdate) \o Flatten(subs)
       [] fault \in {"resolve", "tx1"} -> << >>
       [] OTHER -> Flatten(SubSeq(subs, 1, SubIndex(fault) - 1))

\* createdUserIds: pushed inside the transaction callbacks, add mode only
createdUserIds(usersToUpdate, mode, fault) ==
  LET subs == Chunk(remainingUsers(usersToUpdate), MAX_TRANSACTIONS)
  IN IF mode # "add" THEN << >>
     ELSE CASE fault \in {"none", "stats"} ->
                 firstTransactionUsers(usersToUpdate) \o Flatten(subs)
            [] fault = "tx1" -> firstTransactionUsers(usersToUpdate)
            [] fault = "resolve" -> << >>
            [] OTHER -> Flatten(SubSeq(subs, 1, SubIndex(fault)))

\* totalUsersAssigned at the stats step
totalUsersAssigned(usersToUpdate, mode) ==
  IF mode = "add"
  THEN Len(firstTransactionUsers(usersToUpdate))
       + Len(Flatten(Chunk(remainingUsers(usersToUpdate), MAX_TRANSACTIONS)))
  ELSE 0

\* the stats step moved in front of the sub-chunk loop: it is reached as
\* soon as the first transaction has committed
StatsStepReached_BeforeLoop(fault) == fault \notin {"resolve", "tx1"}

\* the stats step comes after the first transaction and the sub-chunk loop:
\* it is reached only when none of them has thrown
StatsStepReached(fault) == fault \in {"none", "stats"}

\* the guard of the stats step
StatsStepRuns(mode, total) == mode = "add" /\ total > 0

\* a catch block that only reports the failure and undoes nothing
HandlerRollsBack_Never(mode, created) == FALSE

\* the guard of the handler's own rollback in its catch block
HandlerRollsBack(mode, created) == mode = "add" /\ Len(created) > 0

WriteUsers(st, us, a, def, mode) ==
  IF mode = "update" THEN updateAssignmentForUsers(st, us, a, def)
  ELSE addAssignmentToUsers(st, us, a, def)

updateAssignmentsForOrgChunkHandler(st, uo, ar, a, def, orgChunk, mode, fault, rbFault) ==
  LET usersToUpdate == getUsersFromOrgsIn(uo, ar, orgChunk, FALSE)
      committed == CommittedUsers(usersToUpdate, fault)
      created == createdUserIds(usersToUpdate, mode, fault)
      total == totalUsersAssigned(usersToUpdate, mode)
      written == WriteUsers(st, Range(committed), a, def, mode)
      success == fault = "none"
      incremented == /\ StatsStepReached(fault) /\ StatsStepRuns(mode, total)
                     /\ fault # "stats"
      afterStats == IF incremented
                    THEN updateAdministrationStatsForOrgChunk(written, a, total)
                    ELSE written
      rollsBack == ~success /\ HandlerRollsBack(mode, created)
      final == IF rollsBack /\ ~rbFault
               THEN rollbackAssignmentCreation(afterStats, created, a, TRUE)
               ELSE afterStats
  IN [st |-> final, success |-> success, userIds |-> created,
      nUsers |-> Len(usersToUpdate), committed |-> committed,
      incs |-> IF incremented THEN 1 ELSE 0,
      incBy |-> IF incremented THEN total ELSE 0,
      rolledBack |-> rollsBack /\ ~rbFault,
      rollbackTried |-> rollsBack]


(***************************************************************************)
(* State.                                                                  *)
(*   admins[a]   the administration document (org lists, definition)       *)
(*   stats[a]    the administration's assigned-users counter               *)
(*   asg[u][a]   the assignment sub-record users/{u}/assignments/{a}       *)
(*   assigned[u] the user document's index of assigned administrations     *)
(*   administrationsCreated  the creator's adminData.administrationsCreated*)
(*   op          the local variables of the running upsertAdministration   *)
(*   lastInv     what the last chunk handler invocation did                *)
(*   events      document-written events not yet delivered                 *)
(*   tasks       chunk tasks not yet dispatched                            *)
(*   triggerDeployed  whether syncAssignmentsOnAdministrationUpdate is     *)
(*               deployed, so that document writes deliver events          *)
(*   calc        arguments and result of the last evaluation of one of the *)
(*               pure computations (org diffs, closure, event branching)   *)
(*   orgDocs     the group documents and the subGroups lists of upsertOrg  *)
(*   delivered[u] the index field of the user document as of the last      *)
(*               write event delivered to syncAssignmentsOnUserUpdate      *)
(*   preRead     the call of upsertAdministration that has read the        *)
(*               previous data of its administration and has not yet run   *)
(*               its transaction                                           *)
(*   roster      one administrator's roles in the user document and in the *)
(*               custom claims, and the entries of the administrators list *)
(*               of every district document that name the administrator    *)
(***************************************************************************)
Absent == [exists |-> FALSE, orgs |-> {}, def |-> 0]

NoAsgSnapshot == [u \in Users |-> [a \in AdminIds |-> NoAssignment]]

NoPreRead == [state |-> "none", a |-> 0, in |-> {}, def |-> 0, prev |-> Absent]

IdleOp ==
  [pc |-> "idle", kind |-> "none", a |-> 0, prev |-> Absent, in |-> {},
   def |-> 0, data |-> Absent, chunks |-> << >>, i |-> 0, allCreatedUserIds |-> << >>,
   applied |-> << >>, removedExhaustiveOrgs |-> {}, unassigned |-> {},
   unassignedArchived |-> {},
   failedAt |-> 0, failedIn |-> "none", err |-> "none", rbFailed |-> FALSE,
   rbTwice |-> FALSE, rbSame |-> FALSE,
   result |-> "none", stats0 |-> 0, asg0 |-> NoAsgSnapshot]

(***************************************************************************)
(* upsertAdministration up to the commit of its transaction: the gate of   *)
(* the callable, the handler's authorization check, its input validation   *)
(* and the transaction.  A request carries whether the caller is           *)
(* authenticated, the claims of the auth record, the fields of the         *)
(* administration and the org lists in the order they were listed; the     *)
(* world carries the caller's userClaims document, the unit documents      *)
(* consulted for the site, and whether the administration and the          *)
(* caller's user document exist.                                           *)
(***************************************************************************)
NoError == "none"

NoCalc == [kind |-> "none"]

(***************************************************************************)
(* The documents of upsertOrg: the group (cohort) documents with their     *)
(* parent fields, and the subGroups list of every document that can be     *)
(* named as a parent.  "none" stands for a field that is not set.          *)
(***************************************************************************)
GroupIds == {"g1", "g2"}
Districts == {"S1", "S2"}
Schools == {"SC1"}
ParentDocs == Districts \cup Schools

NoGroup == [exists |-> FALSE, parentOrgId |-> "none", parentOrgType |-> "none"]

\* no user document has been written since the last delivery to the user
\* trigger
NoneDelivered == [u \in Users |-> {}]

NoOrgDocs ==
  [groups |-> [g \in GroupIds |-> NoGroup],
   subGroups |-> [p \in ParentDocs |-> {}]]

\* no administrator has been created
NoRoster ==
  [userDoc |-> FALSE, roles |-> << >>, claims |-> << >>,
   administrators |-> [s \in Districts |-> {}],
   last |-> [kind |-> "none", siteId |-> "none"], n |-> 0]

NoInv ==
  [kind |-> "none", a |-> 0, chunk |-> {}, mode |-> "none", success |-> FALSE,
   fault |-> "none", nUsers |-> 0, incs |-> 0, incBy |-> 0,
   statsBefore |-> 0, statsAfter |-> 0, rolledBack |-> FALSE,
   rollbackTried |-> FALSE, repeat |-> FALSE, same |-> FALSE,
   lost |-> {}, viaTask |-> FALSE, userIds |-> << >>, committed |-> << >>]

CurStore == Store(asg, assigned, stats)

Invocation(r, a, chunk, mode, fault, viaTask) ==
  [kind |-> "inv", a |-> a, chunk |-> chunk, mode |-> mode,
   success |-> r.success, fault |-> fault, nUsers |-> r.nUsers,
   incs |-> r.incs, incBy |-> r.incBy,
   statsBefore |-> stats[a], statsAfter |-> r.st.stats[a],
   rolledBack |-> r.rolledBack, rollbackTried |-> r.rollbackTried,
   repeat |-> /\ lastInv.kind = "inv" /\ lastInv.success /\ lastInv.a = a
              /\ lastInv.mode = mode /\ lastInv.chunk = chunk,
   same |-> r.st = CurStore,
   lost |-> {u \in Users : asg[u][a].exists /\ ~r.st.asg[u][a].exists},
   viaTask |-> viaTask, userIds |-> r.userIds, committed |-> r.committed]

Init ==
  /\ admins = [a \in AdminIds |-> Absent]
  /\ stats = [a \in AdminIds |-> 0]
  /\ asg = NoAsgSnapshot
  /\ assigned = [u \in Users |-> {}]
  /\ administrationsCreated = {}
  /\ userOrgs \in Memberships
  /\ archived \in {[u \in Users |-> FALSE], [u \in Users |-> u = "u3"]}
  /\ op = IdleOp
  /\ lastInv = NoInv
  /\ events = {}
  /\ tasks = {}
  /\ faults = 0
  /\ nextId = 1
  /\ opCount = 0
  /\ triggerDeployed = FALSE
  /\ calc = NoCalc
  /\ orgDocs = NoOrgDocs
  /\ delivered = NoneDelivered
  /\ preRead = NoPreRead
  /\ roster = NoRoster

Event(a, before, after) == [a |-> a, before |-> before, after |-> after]

\* a document write that changes nothing delivers no event
\* a store that delivers an event for a write that changes nothing
NewEvents_EveryWrite(a, before, after) ==
  IF ~triggerDeployed THEN {} ELSE {Event(a, before, after)}

\* the event of a write to the administration document: a write that
\* leaves the document as it was delivers none
NewEvents(a, before, after) ==
  IF before = after \/ ~triggerDeployed THEN {}
  ELSE {Event(a, before, after)}

EventsAfterWrite(a, before, after) == events \cup NewEvents(a, before, after)

FaultCost(b) == IF b THEN 1 ELSE 0

Finish(o, result) == [o EXCEPT !.pc = "done", !.result = result]


(***************************************************************************)
(* upsertAdministrationHandler, create path: the transaction that creates  *)
(* the administration document and adds its id to the creator's index.     *)
(***************************************************************************)
UpsertCreate(orgsIn, def, fault) ==
  /\ op.pc \in {"idle", "done"}
  /\ opCount < MaxOps
  /\ nextId <= MaxAdmins
  /\ faults + FaultCost(fault) <= MaxFaults
  /\ opCount' = opCount + 1
  /\ faults' = faults + FaultCost(fault)
  /\ lastInv' = NoInv
  /\ IF orgsIn = {}
     THEN \* no siteId can be determined
          /\ ~fault
          /\ op' = Finish([IdleOp EXCEPT !.kind = "create", !.in = orgsIn,
                                   !.def = def],
                          "invalid-argument")
          /\ UNCHANGED <<admins, administrationsCreated, events, nextId>>
     ELSE IF fault
     THEN /\ op' = Finish([IdleOp EXCEPT !.kind = "create", !.in = orgsIn,
                                         !.def = def,
                                         !.failedIn = "transaction"],
                          "internal")
          /\ UNCHANGED <<admins, administrationsCreated, events, nextId>>
     ELSE LET a == nextId
              doc == [exists |-> TRUE, orgs |-> orgsIn, def |-> def]
          IN /\ admins' = [admins EXCEPT ![a] = doc]
             /\ administrationsCreated' = administrationsCreated \cup {a}
             /\ events' = EventsAfterWrite(a, admins[a], doc)
             /\ nextId' = nextId + 1
             /\ op' = [IdleOp EXCEPT !.pc = "sync", !.kind = "create",
                                     !.a = a, !.in = orgsIn, !.def = def]
  /\ UNCHANGED <<stats, asg, assigned, userOrgs, archived, triggerDeployed, calc, orgDocs, delivered, preRead, roster, tasks>>

(***************************************************************************)
(* upsertAdministrationHandler, update path: the pre-read of the previous  *)
(* data and the transaction that overwrites the document's fields.         *)
(***************************************************************************)
\* a write that would create the document when there is none (set with merge)
existingDocFound_Merge(a) == TRUE

\* the transaction's read of the document to update
existingDocFound(a) == admins[a].exists

\* the update transaction of a call that read prevData before it
UpdateTransaction(prevData, a, orgsIn, def, fault) ==
  IF fault
  THEN /\ op' = Finish([IdleOp EXCEPT !.kind = "update", !.a = a,
                          !.in = orgsIn, !.def = def,
                          !.failedIn = "transaction"],
                       "internal")
       /\ UNCHANGED <<admins, events>>
  ELSE IF ~existingDocFound(a)
  THEN /\ op' = Finish([IdleOp EXCEPT !.kind = "update", !.a = a,
                                      !.in = orgsIn], "not-found")
       /\ UNCHANGED <<admins, events>>
  ELSE LET doc == [exists |-> TRUE, orgs |-> orgsIn, def |-> def]
       IN /\ admins' = [admins EXCEPT ![a] = doc]
          \* updatedAt is rewritten: the write always delivers an event
          /\ events' = IF triggerDeployed
                       THEN events \cup {Event(a, admins[a], doc)}
                       ELSE events
          /\ op' = [IdleOp EXCEPT !.pc = "sync", !.kind = "update",
                                  !.a = a, !.in = orgsIn,
                                  !.def = def, !.prev = prevData]

\* a call whose read of the previous data and whose transaction are not
\* separated by the commit of another call
UpsertUpdate(a, orgsIn, def, fault) ==
  /\ op.pc \in {"idle", "done"}
  /\ opCount < MaxOps
  /\ faults + FaultCost(fault) <= MaxFaults
  /\ opCount' = opCount + 1
  /\ faults' = faults + FaultCost(fault)
  /\ lastInv' = NoInv
  /\ UpdateTransaction(admins[a], a, orgsIn, def, fault)
  /\ UNCHANGED <<stats, asg, assigned, administrationsCreated, userOrgs,
                 archived, triggerDeployed, calc, orgDocs, delivered, preRead, roster,
                 tasks, nextId>>

\* a second call reads the previous data of the administration it updates
\* (the get() before the transaction) and is then overtaken
UpsertPreRead(a, orgsIn, def) ==
  /\ preRead.state = "none"
  /\ admins[a].exists
  /\ preRead' = [state |-> "read", a |-> a, in |-> orgsIn, def |-> def,
                 prev |-> admins[a]]
  /\ UNCHANGED <<admins, stats, asg, assigned, administrationsCreated,
                 userOrgs, archived, op, lastInv, events, tasks, faults,
                 nextId, opCount, triggerDeployed, calc, orgDocs, delivered,
                 roster>>

\* the overtaken call runs its transaction with the previous data it read
UpsertAfterPreRead ==
  /\ preRead.state = "read"
  /\ op.pc \in {"idle", "done"}
  /\ preRead' = [preRead EXCEPT !.state = "done"]
  /\ lastInv' = NoInv
  /\ UpdateTransaction(preRead.prev, preRead.a, preRead.in, preRead.def,
                       FALSE)
  /\ UNCHANGED <<stats, asg, assigned, administrationsCreated, userOrgs,
                 archived, triggerDeployed, calc, orgDocs, delivered, tasks,
                 nextId, opCount, faults, roster>>

(***************************************************************************)
(* The re-read of the document after the transaction and the choice of     *)
(* createAssignments or updateAssignments.                                 *)
(***************************************************************************)
AsNewAdministration(o) == o.kind = "create" \/ ~o.prev.exists

SyncStart ==
  /\ op.pc = "sync"
  /\ IF ~admins[op.a].exists
     THEN op' = Finish(op, "ok")
     ELSE op' = [op EXCEPT !.data = admins[op.a],
                           !.pc = IF AsNewAdministration(op)
                                  THEN "standardize" ELSE "remove"]
  /\ lastInv' = NoInv
  /\ UNCHANGED <<admins, stats, asg, assigned, administrationsCreated,
                 userOrgs, archived, triggerDeployed, calc, orgDocs, delivered, preRead, roster, events, tasks, faults, nextId, opCount>>

\* a catch block that logs every error of the sync step and rethrows none
SyncErrorResult_LogOnly(o) == "ok"

\* a catch block that rethrows every error of the sync step
SyncErrorResult_Rethrow(o) == "internal"

\* what the handler's catch block does with an error of the sync step
\* a catch block that rethrows for updates and only logs for creations
SyncErrorResult_UpdateOnly(o) == IF o.kind = "update" THEN "internal" ELSE "ok"

SyncErrorResult(o) == IF o.kind = "create" THEN "internal" ELSE "ok"

SyncFailed(o, where, err) ==
  Finish([o EXCEPT !.failedIn = where, !.err = err], SyncErrorResult(o))

(***************************************************************************)
(* updateAssignments: removal of the assignments of the removed orgs.      *)
(***************************************************************************)
\* a difference taken the wrong way round
removedOrgs_Reversed(prevOrgs, currOrgs) == currOrgs \ prevOrgs

removedOrgs(prevOrgs, currOrgs) == prevOrgs \ currOrgs

RemoveStep(fault) ==
  /\ op.pc = "remove"
  /\ faults + FaultCost(fault) <= MaxFaults
  /\ faults' = faults + FaultCost(fault)
  /\ lastInv' = NoInv
  /\ LET removed == removedOrgs(op.prev.orgs, op.data.orgs)
         removedExhaustiveOrgs == getExhaustiveOrgs(getOnlyExistingOrgs(removed))
         usersToRemove == getUsersFromOrgsIn(userOrgs, archived,
                                             removedExhaustiveOrgs, TRUE)
         st == removeOrgsFromAssignments(CurStore, Range(usersToRemove), op.a)
     IN IF removed = {}
        THEN /\ ~fault
             /\ op' = [op EXCEPT !.pc = "standardize"]
             /\ UNCHANGED <<asg, assigned>>
        ELSE IF fault
        THEN /\ op' = SyncFailed(op, "remove", "store")
             /\ UNCHANGED <<asg, assigned>>
        ELSE /\ asg' = st.asg
             /\ assigned' = st.assigned
             /\ op' = [op EXCEPT !.pc = "standardize",
                                 !.removedExhaustiveOrgs = removedExhaustiveOrgs,
                                 !.unassigned =
                                    {u \in Range(usersToRemove) :
                                        asg[u][op.a].exists},
                                 !.unassignedArchived =
                                    {u \in Range(usersToRemove) :
                                        asg[u][op.a].exists /\ archived[u]}]
  /\ UNCHANGED <<admins, stats, administrationsCreated, userOrgs, archived, triggerDeployed, calc, orgDocs, delivered, preRead, roster,
                 events, tasks, nextId, opCount>>

(***************************************************************************)
(* standardizeAdministrationOrgs followed by chunkOrgs.                    *)
(***************************************************************************)
standardizeAdministrationOrgs(orgs) == getExhaustiveOrgs(getOnlyExistingOrgs(orgs))

StandardizeStep(fault) ==
  /\ op.pc = "standardize"
  /\ faults + FaultCost(fault) <= MaxFaults
  /\ faults' = faults + FaultCost(fault)
  /\ lastInv' = NoInv
  /\ IF fault
     THEN \* thrown outside the try block of createAssignments: no rollback
          /\ op' = SyncFailed(op, "standardize", "store")
          /\ UNCHANGED <<admins, events>>
     ELSE LET minimalOrgs == standardizeAdministrationOrgs(op.data.orgs)
              orgChunks == chunkOrgs(minimalOrgs, ORG_CHUNK_SIZE)
              doc == IF admins[op.a].exists
                     THEN [admins[op.a] EXCEPT !.orgs = minimalOrgs]
                     ELSE admins[op.a]
              o == [op EXCEPT !.chunks = orgChunks, !.i = 1,
                              !.stats0 = stats[op.a], !.asg0 = asg]
          IN /\ admins' = [admins EXCEPT ![op.a] = doc]
             /\ events' = EventsAfterWrite(op.a, admins[op.a], doc)
             /\ op' = IF Len(orgChunks) = 0 THEN Finish(o, "ok")
                      ELSE [o EXCEPT !.pc = "chunks"]
  /\ UNCHANGED <<stats, asg, assigned, administrationsCreated, userOrgs,
                 archived, triggerDeployed, calc, orgDocs, delivered, preRead, roster, tasks, nextId, opCount>>


(***************************************************************************)
(* One iteration of the chunk loop of createAssignments (add mode) or of   *)
(* updateAssignments (update mode).                                        *)
(***************************************************************************)
SyncMode(o) == IF AsNewAdministration(o) THEN "add" ELSE "update"

HandlerFaultOk(orgChunk, mode, fault, rbFault) ==
  LET users == getUsersFromOrgsIn(userOrgs, archived, orgChunk, FALSE)
  IN /\ FaultPossible(users, mode, fault)
     /\ rbFault => /\ fault # "none"
                   /\ HandlerRollsBack(mode, createdUserIds(users, mode, fault))
     /\ faults + FaultCost(fault # "none") + FaultCost(rbFault) <= MaxFaults

\* a loop that applies the first chunk and leaves the others to the
\* background path
AfterChunk_FirstOnly(o, result) ==
  IF result.success
  THEN Finish([o EXCEPT !.allCreatedUserIds = @ \o result.userIds,
                        !.applied = Append(@, [orgChunk |-> o.chunks[o.i],
                                               mode |-> SyncMode(o)]),
                        !.i = @ + 1], "ok")
  ELSE Finish([o EXCEPT !.failedAt = o.i, !.failedIn = "chunk", !.err = "chunk"],
              SyncErrorResult(o))

\* a loop that notes a failed chunk and goes on with the next one
AfterChunk_ContinueAfterFailure(o, result) ==
  LET o1 == IF result.success
            THEN [o EXCEPT !.allCreatedUserIds = @ \o result.userIds,
                           !.applied = Append(@, [orgChunk |-> o.chunks[o.i],
                                                  mode |-> SyncMode(o)]),
                           !.i = @ + 1]
            ELSE [o EXCEPT !.failedAt = o.i, !.failedIn = "chunk",
                           !.err = "chunk", !.i = @ + 1]
  IN IF o.i + 1 > Len(o.chunks)
     THEN Finish(o1, IF o1.failedAt = 0 THEN "ok" ELSE SyncErrorResult(o))
     ELSE o1

\* the loop body after the handler returned: track the chunk or give up
AfterChunk(o, result) ==
  IF result.success
  THEN LET o1 == [o EXCEPT !.allCreatedUserIds = @ \o result.userIds,
                            !.applied = Append(@, [orgChunk |-> o.chunks[o.i],
                                                   mode |-> SyncMode(o)]),
                            !.i = @ + 1]
       IN IF o.i + 1 > Len(o.chunks) THEN Finish(o1, "ok") ELSE o1
  ELSE LET o1 == [o EXCEPT !.failedAt = o.i, !.failedIn = "chunk",
                            !.err = "chunk",
                            !.rbFailed = result.rollbackTried /\ ~result.rolledBack]
       IN IF AsNewAdministration(o)
          THEN [o1 EXCEPT !.pc = "rollback"]
          ELSE Finish(o1, SyncErrorResult(o))

ChunkStep(fault, rbFault) ==
  /\ op.pc = "chunks"
  /\ LET orgChunk == op.chunks[op.i]
         mode == SyncMode(op)
         r == updateAssignmentsForOrgChunkHandler(CurStore, userOrgs, archived,
                 op.a, op.data.def, orgChunk, mode, fault, rbFault)
     IN /\ HandlerFaultOk(orgChunk, mode, fault, rbFault)
        /\ faults' = faults + FaultCost(fault # "none") + FaultCost(rbFault)
        /\ asg' = r.st.asg
        /\ assigned' = r.st.assigned
        /\ stats' = r.st.stats
        /\ lastInv' = Invocation(r, op.a, orgChunk, mode, fault, FALSE)
        /\ op' = AfterChunk(op, r)
  /\ UNCHANGED <<admins, administrationsCreated, userOrgs, archived, triggerDeployed, calc, orgDocs, delivered, preRead, roster, events,
                 tasks, nextId, opCount>>

(***************************************************************************)
(* createAssignments after a failed chunk: the rollbacks inside the loop,  *)
(* the throw, and the catch block that runs the rollbacks again.           *)
(*   f1  rollbackAssignmentCreation in the loop fails                      *)
(*   f2  rollbackAdministrationCreation in the loop fails                  *)
(*   f3  rollbackAssignmentCreation in the catch block fails               *)
(*   f4  rollbackAdministrationCreation in the catch block fails           *)
(***************************************************************************)
\* which error createAssignments throws: the one caught by its catch block
ThrownError(f1, f2) == IF f1 \/ f2 THEN "rollback" ELSE "chunk"

RollbackStep(f1, f2, f3, f4) ==
  /\ op.pc = "rollback"
  /\ LET a == op.a
         all == op.allCreatedUserIds
         hasUsers == Len(all) > 0
         cost == FaultCost(f1) + FaultCost(f2) + FaultCost(f3) + FaultCost(f4)
         \* in the loop
         usersUndone1 == hasUsers /\ ~f1
         docUndone1 == ~f1 /\ ~f2
         \* in the catch block
         usersUndone2 == hasUsers /\ ~f3
         docUndone2 == ~f4
         st1 == IF usersUndone1
                THEN rollbackAssignmentCreation(CurStore, all, a, FALSE)
                ELSE CurStore
         doc1 == IF docUndone1 THEN Absent ELSE admins[a]
         created1 == IF docUndone1 THEN administrationsCreated \ {a}
                     ELSE administrationsCreated
         st == IF usersUndone2
               THEN rollbackAssignmentCreation(st1, all, a, FALSE)
               ELSE st1
         doc == IF docUndone2 THEN Absent ELSE doc1
         created == IF docUndone2 THEN created1 \ {a} ELSE created1
         docGone == ~doc.exists
     IN /\ f1 => hasUsers
        /\ f2 => ~f1
        /\ f3 => hasUsers
        /\ faults + cost <= MaxFaults
        /\ faults' = faults + cost
        /\ asg' = st.asg
        /\ assigned' = st.assigned
        /\ stats' = st.stats
        /\ admins' = [admins EXCEPT ![a] = doc]
        /\ administrationsCreated' = created
        /\ events' = EventsAfterWrite(a, admins[a], doc)
        /\ op' = Finish([op EXCEPT !.err = ThrownError(f1, f2),
                           !.rbTwice = hasUsers /\ ~f1 /\ ~f2,
                           !.rbSame = /\ st = st1 /\ doc = doc1
                                      /\ created = created1,
                           !.rbFailed = \/ op.rbFailed
                                        \/ (hasUsers /\ ~usersUndone1 /\ ~usersUndone2)
                                        \/ ~docGone],
                        SyncErrorResult(op))
  /\ lastInv' = NoInv
  /\ UNCHANGED <<userOrgs, archived, triggerDeployed, calc, orgDocs, delivered, preRead, roster, tasks, nextId, opCount>>


(***************************************************************************)
(* syncAssignmentsOnAdministrationUpdateEventHandler: the change-triggered *)
(* path.  The branch is chosen from the before/after snapshots of the      *)
(* event; the chunks of a new or modified administration are handed to the *)
(* task queue.                                                             *)
(***************************************************************************)
Task(a, def, orgChunk, mode) ==
  [a |-> a, def |-> def, orgChunk |-> orgChunk, mode |-> mode]

ChunkTasks(a, def, orgs, mode) ==
  LET orgChunks == chunkOrgs(orgs, ORG_CHUNK_SIZE)
  IN {Task(a, def, orgChunks[k], mode) : k \in 1..Len(orgChunks)}

\* a branching that looks at the before snapshot first
EventPath_BeforeFirst(e) ==
  IF ~e.before.exists THEN "new"
  ELSE IF ~e.after.exists THEN "removed" ELSE "modified"

EventPath(e) ==
  IF ~e.after.exists
  THEN IF ~e.before.exists THEN "none" ELSE "removed"
  ELSE IF ~e.before.exists THEN "new" ELSE "modified"

processRemovedAdministration(st, a, prevOrgs) ==
  removeAssignmentFromUsers(st,
     Range(getUsersFromOrgsIn(userOrgs, archived, prevOrgs, TRUE)), a)

TriggerRemoved(e) ==
  /\ e \in events
  /\ EventPath(e) = "removed"
  /\ LET st == processRemovedAdministration(CurStore, e.a, e.before.orgs)
     IN /\ asg' = st.asg
        /\ assigned' = st.assigned
  /\ administrationsCreated' = administrationsCreated \ {e.a}
  /\ events' = events \ {e}
  /\ lastInv' = [NoInv EXCEPT !.kind = "removed", !.a = e.a]
  /\ UNCHANGED <<admins, stats, userOrgs, archived, triggerDeployed, calc, orgDocs, delivered, preRead, roster, op, tasks, faults, nextId,
                 opCount>>

\* processNewAdministration: standardize, then one add-mode task per chunk
TriggerNew(e) ==
  /\ e \in events
  /\ EventPath(e) = "new"
  /\ LET minimalOrgs == standardizeAdministrationOrgs(e.after.orgs)
         doc == [admins[e.a] EXCEPT !.orgs = minimalOrgs]
     IN IF admins[e.a].exists
        THEN /\ admins' = [admins EXCEPT ![e.a] = doc]
             /\ events' = (events \ {e}) \cup NewEvents(e.a, admins[e.a], doc)
             /\ tasks' = tasks \cup ChunkTasks(e.a, e.after.def, minimalOrgs, "add")
        ELSE /\ events' = events \ {e}
             /\ UNCHANGED <<admins, tasks>>
  /\ lastInv' = NoInv
  /\ UNCHANGED <<stats, asg, assigned, administrationsCreated, userOrgs,
                 archived, triggerDeployed, calc, orgDocs, delivered, preRead, roster, op, faults, nextId, opCount>>

\* processModifiedAdministration: remove the users of the removed orgs,
\* standardize, then one update-mode task per chunk
TriggerModified(e) ==
  /\ e \in events
  /\ EventPath(e) = "modified"
  /\ LET removed == removedOrgs(e.before.orgs, e.after.orgs)
         removedExhaustiveOrgs == getExhaustiveOrgs(getOnlyExistingOrgs(removed))
         usersToRemove == getUsersFromOrgsIn(userOrgs, archived,
                                             removedExhaustiveOrgs, TRUE)
         st == removeOrgsFromAssignments(CurStore, Range(usersToRemove), e.a)
         minimalOrgs == standardizeAdministrationOrgs(e.after.orgs)
         doc == [admins[e.a] EXCEPT !.orgs = minimalOrgs]
     IN /\ asg' = st.asg
        /\ assigned' = st.assigned
        /\ IF admins[e.a].exists
           THEN /\ admins' = [admins EXCEPT ![e.a] = doc]
                /\ events' = (events \ {e}) \cup NewEvents(e.a, admins[e.a], doc)
                /\ tasks' = tasks \cup
                      ChunkTasks(e.a, e.after.def, minimalOrgs, "update")
           ELSE /\ events' = events \ {e}
                /\ UNCHANGED <<admins, tasks>>
  /\ lastInv' = NoInv
  /\ UNCHANGED <<stats, administrationsCreated, userOrgs, archived, triggerDeployed, calc, orgDocs, delivered, preRead, roster, op,
                 faults, nextId, opCount>>

(***************************************************************************)
(* updateAssignmentsForOrgChunk: the task-dispatched function.  It awaits  *)
(* the handler and returns; the handler's result is not looked at.         *)
(***************************************************************************)
TaskRun(t, fault, rbFault) ==
  /\ t \in tasks
  /\ LET r == updateAssignmentsForOrgChunkHandler(CurStore, userOrgs, archived,
                 t.a, t.def, t.orgChunk, t.mode, fault, rbFault)
     IN /\ HandlerFaultOk(t.orgChunk, t.mode, fault, rbFault)
        /\ faults' = faults + FaultCost(fault # "none") + FaultCost(rbFault)
        /\ asg' = r.st.asg
        /\ assigned' = r.st.assigned
        /\ stats' = r.st.stats
        /\ lastInv' = Invocation(r, t.a, t.orgChunk, t.mode, fault, TRUE)
  /\ tasks' = tasks \ {t}
  /\ UNCHANGED <<admins, administrationsCreated, userOrgs, archived, triggerDeployed, calc, orgDocs, delivered, preRead, roster, op,
                 events, nextId, opCount>>

InputOrgs == {{}, {"S1"}, {"SC1"}, {"CL1"}}
\* two versions of the administration's definition (assessments, dates)
Defs == {1, 2}

Next ==
  \/ \E orgsIn \in InputOrgs, def \in Defs, fault \in BOOLEAN :
        UpsertCreate(orgsIn, def, fault)
  \/ \E a \in AdminIds, orgsIn \in InputOrgs, def \in Defs, fault \in BOOLEAN :
        UpsertUpdate(a, orgsIn, def, fault)
  \/ SyncStart
  \/ \E fault \in BOOLEAN : RemoveStep(fault)
  \/ \E fault \in BOOLEAN : StandardizeStep(fault)
  \/ \E fault \in FaultPoints, rbFault \in BOOLEAN : ChunkStep(fault, rbFault)
  \/ \E f1, f2, f3, f4 \in BOOLEAN : RollbackStep(f1, f2, f3, f4)

Spec == Init /\ [][Next]_vars

(***************************************************************************)
(* The synchronous path together with the change-triggered path and the    *)
(* task queue, interleaved, in the world of three students of one class;   *)
(* the upserts target the class or nothing.                                *)
(***************************************************************************)
DualInit ==
  /\ admins = [a \in AdminIds |-> Absent]
  /\ stats = [a \in AdminIds |-> 0]
  /\ asg = NoAsgSnapshot
  /\ assigned = [u \in Users |-> {}]
  /\ administrationsCreated = {}
  /\ op = IdleOp
  /\ lastInv = NoInv
  /\ events = {}
  /\ tasks = {}
  /\ faults = 0
  /\ nextId = 1
  /\ opCount = 0
  /\ triggerDeployed = TRUE
  /\ calc = NoCalc
  /\ orgDocs = NoOrgDocs
  /\ delivered = NoneDelivered
  /\ preRead = NoPreRead
  /\ roster = NoRoster
  /\ userOrgs = [u \in Users |-> {"S1", "SC1", "CL1"}]
  /\ archived = [u \in Users |-> FALSE]

DualInputOrgs == {{}, {"CL1"}}

\* a further upsert is issued once the events and tasks of the earlier ones
\* have been worked off; within one upsert the two paths interleave freely
Drained == events = {} /\ tasks = {}

DualNext ==
  \/ \E orgsIn \in DualInputOrgs, def \in Defs, fault \in BOOLEAN :
        Drained /\ UpsertCreate(orgsIn, def, fault)
  \/ \E a \in AdminIds, orgsIn \in DualInputOrgs, def \in Defs, fault \in BOOLEAN :
        Drained /\ UpsertUpdate(a, orgsIn, def, fault)
  \/ SyncStart
  \/ \E fault \in BOOLEAN : RemoveStep(fault)
  \/ \E fault \in BOOLEAN : StandardizeStep(fault)
  \/ \E fault \in FaultPoints, rbFault \in BOOLEAN : ChunkStep(fault, rbFault)
  \/ \E f1, f2, f3, f4 \in BOOLEAN : RollbackStep(f1, f2, f3, f4)
  \/ \E e \in events : TriggerRemoved(e)
  \/ \E e \in events : TriggerNew(e)
  \/ \E e \in events : TriggerModified(e)
  \/ \E t \in tasks, fault \in FaultPoints, rbFault \in BOOLEAN :
        TaskRun(t, fault, rbFault)

DualSpec == DualInit /\ [][DualNext]_vars


(***************************************************************************)
(* deleteAdministration: the delete call removes the administration        *)
(* document and, in remove mode and with the archived users included, the  *)
(* assignments of the users of its stored orgs.  The write of the document *)
(* delivers a deletion event to the change-triggered path.  A delete is    *)
(* accepted while events of an earlier upsert are still to be delivered.   *)
(* In the runs with deletes the store errors strike the synchronous path.  *)
(***************************************************************************)
DeleteAdministration(a) ==
  /\ op.pc \in {"idle", "done"}
  /\ tasks = {}
  /\ admins[a].exists
  /\ LET st == processRemovedAdministration(CurStore, a, admins[a].orgs)
     IN /\ asg' = st.asg
        /\ assigned' = st.assigned
  /\ admins' = [admins EXCEPT ![a] = Absent]
  /\ events' = EventsAfterWrite(a, admins[a], Absent)
  /\ lastInv' = NoInv
  /\ UNCHANGED <<stats, administrationsCreated, userOrgs, archived,
                 triggerDeployed, calc, orgDocs, delivered, preRead, roster, op, tasks, faults, nextId, opCount>>

\* the students belong to the class only; the third may be archived
DeleteInit ==
  /\ admins = [a \in AdminIds |-> Absent]
  /\ stats = [a \in AdminIds |-> 0]
  /\ asg = NoAsgSnapshot
  /\ assigned = [u \in Users |-> {}]
  /\ administrationsCreated = {}
  /\ userOrgs = [u \in Users |-> {"CL1"}]
  /\ archived \in {[u \in Users |-> FALSE], [u \in Users |-> u = "u3"]}
  /\ op = IdleOp
  /\ lastInv = NoInv
  /\ events = {}
  /\ tasks = {}
  /\ faults = 0
  /\ nextId = 1
  /\ opCount = 0
  /\ triggerDeployed = TRUE
  /\ calc = NoCalc
  /\ orgDocs = NoOrgDocs
  /\ delivered = NoneDelivered
  /\ preRead = NoPreRead
  /\ roster = NoRoster

\* the upserts of these runs name the school
DeleteInputOrgs == {{"SC1"}}

DeleteNext ==
  \/ \E orgsIn \in DeleteInputOrgs, def \in Defs, fault \in BOOLEAN :
        Drained /\ UpsertCreate(orgsIn, def, fault)
  \/ \E a \in AdminIds, orgsIn \in DeleteInputOrgs, def \in Defs, fault \in BOOLEAN :
        Drained /\ UpsertUpdate(a, orgsIn, def, fault)
  \/ \E a \in AdminIds : DeleteAdministration(a)
  \/ SyncStart
  \/ \E fault \in BOOLEAN : RemoveStep(fault)
  \/ \E fault \in BOOLEAN : StandardizeStep(fault)
  \/ \E fault \in FaultPoints, rbFault \in BOOLEAN : ChunkStep(fault, rbFault)
  \/ \E f1, f2, f3, f4 \in BOOLEAN : RollbackStep(f1, f2, f3, f4)
  \/ \E e \in events : TriggerRemoved(e)
  \/ \E e \in events : TriggerNew(e)
  \/ \E e \in events : TriggerModified(e)
  \/ \E t \in tasks : TaskRun(t, "none", FALSE)

DeleteSpec == DeleteInit /\ [][DeleteNext]_vars


(***************************************************************************)
(* The synchronous path in a world where a user is archived while holding  *)
(* assignments: the archived flag of the user document is set from outside *)
(* the functions, at any moment.                                           *)
(***************************************************************************)
ArchiveUser(u) ==
  /\ ~archived[u]
  /\ archived' = [archived EXCEPT ![u] = TRUE]
  /\ UNCHANGED <<admins, stats, asg, assigned, administrationsCreated,
                 userOrgs, op, lastInv, events, tasks, faults, nextId,
                 opCount, triggerDeployed, calc, orgDocs, delivered, preRead, roster>>

ArchivableUsers == {"u3"}

ArchiveNext ==
  \/ Next
  \/ \E u \in ArchivableUsers : ArchiveUser(u)

ArchiveSpec == Init /\ [][ArchiveNext]_vars

(***************************************************************************)
(* _upsertOrg for groups (cohorts).  The request names the group to update *)
(* (or none, for a creation) and may carry parentOrgId and parentOrgType;  *)
(* "none" is a key the request does not carry.  A transaction whose        *)
(* function throws, or that updates a document that does not exist,        *)
(* writes nothing.                                                         *)
(***************************************************************************)
\* getPluralCollectionName, for the kinds that have documents here
CollectionOf(parentOrgType) ==
  CASE parentOrgType = "district" -> Districts
    [] parentOrgType = "school" -> Schools
    [] OTHER -> {}

\* the validation of both branches: a parent type that is given must be
\* 'district'
parentTypeRejected(parentOrgId, parentOrgType) ==
  parentOrgType \notin {"none", "district"}

\* the fields of the request overwrite those of the document
\* "null" is a parentOrgId given as null: the field is cleared
Given(parentOrgId) == parentOrgId \notin {"none", "null"}

mergeGroup(old, parentOrgId, parentOrgType) ==
  [exists |-> TRUE,
   parentOrgId |-> CASE parentOrgId = "none" -> old.parentOrgId
                     [] parentOrgId = "null" -> "none"
                     [] OTHER -> parentOrgId,
   parentOrgType |-> IF parentOrgType = "none" THEN old.parentOrgType
                     ELSE parentOrgType]

\* the update branch: its error and the documents after it
updateGroup(docs, g, parentOrgId, parentOrgType) ==
  LET old == docs.groups[g]
      changed == /\ Given(parentOrgId)
                 /\ (old.parentOrgId # parentOrgId \/ old.parentOrgType # parentOrgType)
      oldParents == IF old.parentOrgId # "none" /\ old.parentOrgType # "none"
                    THEN {old.parentOrgId} ELSE {}
      \* transaction.update of the old and of the new parent document
      touched == IF changed THEN oldParents \cup {parentOrgId} ELSE {}
      missing == \E p \in touched :
                    \/ p = parentOrgId /\ p \notin Districts
                    \/ p \in oldParents /\ p # parentOrgId
                         /\ p \notin CollectionOf(old.parentOrgType)
      removed == [p \in ParentDocs |->
                    IF changed /\ p \in oldParents
                       /\ p \in CollectionOf(old.parentOrgType)
                    THEN docs.subGroups[p] \ {g} ELSE docs.subGroups[p]]
      added == [p \in ParentDocs |->
                    IF changed /\ p = parentOrgId
                    THEN removed[p] \cup {g} ELSE removed[p]]
  IN IF ~old.exists THEN [error |-> "not-found", docs |-> docs]
     ELSE IF parentTypeRejected(parentOrgId, parentOrgType)
     THEN [error |-> "invalid-argument", docs |-> docs]
     ELSE IF missing THEN [error |-> "internal", docs |-> docs]
     ELSE [error |-> NoError,
           docs |-> [groups |-> [docs.groups EXCEPT
                                   ![g] = mergeGroup(old, parentOrgId, parentOrgType)],
                     subGroups |-> added]]

\* the create branch: the new document is set, then the parent's list is
\* updated when both parentOrgId and parentOrgType are given
createGroup(docs, g, parentOrgId, parentOrgType) ==
  LET linked == Given(parentOrgId) /\ parentOrgType # "none"
      missing == linked /\ parentOrgId \notin CollectionOf(parentOrgType)
  IN IF parentTypeRejected(parentOrgId, parentOrgType)
     THEN [error |-> "invalid-argument", docs |-> docs]
     ELSE IF missing THEN [error |-> "internal", docs |-> docs]
     ELSE [error |-> NoError,
           docs |-> [groups |-> [docs.groups EXCEPT
                                   ![g] = mergeGroup(NoGroup, parentOrgId, parentOrgType)],
                     subGroups |-> [p \in ParentDocs |->
                                      IF linked /\ p = parentOrgId
                                      THEN docs.subGroups[p] \cup {g}
                                      ELSE docs.subGroups[p]]]]

\* the ids a request can name as parent: the districts, the school, an id
\* without a document, no id, and null
ParentIds == ParentDocs \cup {"X9", "none", "null"}
ParentTypes == {"none", "district", "school"}

\* what the last upsertOrg call was given, what it answered and the
\* documents it found
OrgCall(g, parentOrgId, parentOrgType, error) ==
  [kind |-> "upsertOrg", g |-> g, parentOrgId |-> parentOrgId,
   parentOrgType |-> parentOrgType, error |-> error, before |-> orgDocs]

UpsertOrgUpdate(g, parentOrgId, parentOrgType) ==
  /\ LET r == updateGroup(orgDocs, g, parentOrgId, parentOrgType)
     IN /\ orgDocs' = r.docs
        /\ lastInv' = OrgCall(g, parentOrgId, parentOrgType, r.error)
  /\ UNCHANGED <<admins, stats, asg, assigned, administrationsCreated,
                 userOrgs, archived, op, events, tasks, faults,
                 nextId, opCount, triggerDeployed, calc, delivered, preRead, roster>>

\* the id of the next group document
IsNewGroupId(docs, g) ==
  /\ ~docs.groups[g].exists
  /\ g = "g2" => docs.groups["g1"].exists

UpsertOrgCreate(parentOrgId, parentOrgType) ==
  /\ \E g \in GroupIds :
        /\ IsNewGroupId(orgDocs, g)
        /\ LET r == createGroup(orgDocs, g, parentOrgId, parentOrgType)
           IN /\ orgDocs' = r.docs
              /\ lastInv' = OrgCall("none", parentOrgId, parentOrgType, r.error)
  /\ UNCHANGED <<admins, stats, asg, assigned, administrationsCreated,
                 userOrgs, archived, op, events, tasks, faults,
                 nextId, opCount, triggerDeployed, calc, delivered, preRead, roster>>

OrgNext ==
  \/ \E g \in GroupIds, p \in ParentIds, t \in ParentTypes : UpsertOrgUpdate(g, p, t)
  \/ \E p \in ParentIds, t \in ParentTypes : UpsertOrgCreate(p, t)

OrgSpec == DualInit /\ [][OrgNext]_vars


(***************************************************************************)
(* The pure computations, evaluated on enumerated arguments.               *)
(*                                                                         *)
(* Org lists are records of lists, one field per kind of unit; a kind may  *)
(* be missing from a list (_pick keeps the fields the document has).       *)
(***************************************************************************)
Kinds == {"districts", "classes"}
Ids == {"x", "y"}
OrgLists == UNION {[K -> SUBSET Ids] : K \in SUBSET Kinds}

\* list[kind], undefined when the kind is missing; _difference reads
\* undefined as the empty list
ListOf(list, kind) == IF kind \in DOMAIN list THEN list[kind] ELSE {}

\* updateAssignments: one entry per kind of the CURRENT org lists
removedOrgsByKind(prevOrgs, currOrgs) ==
  [key \in DOMAIN currOrgs |-> ListOf(prevOrgs, key) \ currOrgs[key]]

\* syncAssignmentsOnUserUpdateEventHandler: one entry per kind of the
\* previous lists (removed) and of the current lists (added)
userRemovedOrgs(prevOrgLists, currOrgLists) ==
  [key \in DOMAIN prevOrgLists |-> prevOrgLists[key] \ ListOf(currOrgLists, key)]

userAddedOrgs(prevOrgLists, currOrgLists) ==
  [key \in DOMAIN currOrgLists |-> currOrgLists[key] \ ListOf(prevOrgLists, key)]

DiffAdministration(prevOrgs, currOrgs) ==
  /\ calc = NoCalc
  /\ calc' = [kind |-> "administrationDiff", prev |-> prevOrgs, curr |-> currOrgs,
              removed |-> removedOrgsByKind(prevOrgs, currOrgs)]
  /\ UNCHANGED <<admins, stats, asg, assigned, administrationsCreated,
                 userOrgs, archived, op, lastInv, events, tasks, faults,
                 nextId, opCount, triggerDeployed, orgDocs, delivered, preRead, roster>>

DiffUser(prevOrgLists, currOrgLists) ==
  /\ calc = NoCalc
  /\ calc' = [kind |-> "userDiff", prev |-> prevOrgLists, curr |-> currOrgLists,
              removed |-> userRemovedOrgs(prevOrgLists, currOrgLists),
              added |-> userAddedOrgs(prevOrgLists, currOrgLists)]
  /\ UNCHANGED <<admins, stats, asg, assigned, administrationsCreated,
                 userOrgs, archived, op, lastInv, events, tasks, faults,
                 nextId, opCount, triggerDeployed, orgDocs, delivered, preRead, roster>>

\* every child relation over the units, not only that of the seeded world
Hierarchies == [Orgs -> SUBSET Orgs]

Closure(ch, orgs) ==
  /\ calc = NoCalc
  /\ calc' = [kind |-> "closure", ch |-> ch, orgs |-> orgs,
              once |-> getExhaustiveOrgsIn(ch, orgs),
              twice |-> getExhaustiveOrgsIn(ch, getExhaustiveOrgsIn(ch, orgs))]
  /\ UNCHANGED <<admins, stats, asg, assigned, administrationsCreated,
                 userOrgs, archived, op, lastInv, events, tasks, faults,
                 nextId, opCount, triggerDeployed, orgDocs, delivered, preRead, roster>>

\* the snapshots a document-written event can carry
Snapshots == {Absent} \cup {[exists |-> TRUE, orgs |-> o, def |-> 1] : o \in InputOrgs}

\* whether the branch of the event handler writes anything
PathWrites(path) == path # "none"

Dispatch(before, after) ==
  /\ calc = NoCalc
  /\ calc' = [kind |-> "event", before |-> before, after |-> after,
              path |-> EventPath(Event(1, before, after)),
              writes |-> PathWrites(EventPath(Event(1, before, after)))]
  /\ UNCHANGED <<admins, stats, asg, assigned, administrationsCreated,
                 userOrgs, archived, op, lastInv, events, tasks, faults,
                 nextId, opCount, triggerDeployed, orgDocs, delivered, preRead, roster>>


\* index.ts: the permission gate of the callable
upsertAdministrationGate(req) ==
  IF ~req.uid THEN "unauthenticated"
  ELSE IF ~req.useNewPermissions THEN NoError
  ELSE IF ~req.siteId THEN "invalid-argument"
  ELSE IF ~req.allowed THEN "permission-denied"
  ELSE NoError

\* a check that only looks whether the userClaims document exists
authorizationCheck_DocOnly(userClaims) ==
  IF userClaims = "nodoc" THEN "permission-denied" ELSE NoError

\* the handler's check of the userClaims document: "nodoc" is a missing
\* document, "plain" one whose claims set neither admin nor super_admin
authorizationCheck(userClaims) ==
  CASE userClaims = "nodoc" -> "permission-denied"
    [] userClaims = "plain" -> "permission-denied"
    [] OTHER -> NoError

\* new Date(x) and Timestamp.fromDate keep the millisecond value
toMillis(date) == date

\* a comparison that also turns away equal dates
inputValidation_Strict(req) ==
  IF \/ ~req.name \/ req.assessments # "array"
     \/ req.dateOpen = 0 \/ req.dateClose = 0
  THEN "invalid-argument"
  ELSE IF toMillis(req.dateClose) <= toMillis(req.dateOpen)
  THEN "invalid-argument"
  ELSE NoError

\* the handler's input validation; a missing date is a falsy value
inputValidation(req) ==
  IF \/ ~req.name \/ req.assessments # "array"
     \/ req.dateOpen = 0 \/ req.dateClose = 0
  THEN "invalid-argument"
  ELSE IF toMillis(req.dateClose) < toMillis(req.dateOpen)
  THEN "invalid-argument"
  ELSE NoError

NoSite == "nosite"

\* the field of a unit document that names its site; NoSite when the
\* document is absent or has no such field
ParentRef(units, id) == units[id]

\* a resolution that goes on to the next kind when the consulted unit
\* yields nothing
resolveSiteId_FallThrough(req, units) ==
  IF Len(req.districts) > 0 THEN Head(req.districts)
  ELSE IF Len(req.groups) > 0 /\ ParentRef(units, Head(req.groups)) \notin {"absent", "noparent"}
  THEN ParentRef(units, Head(req.groups))
  ELSE IF Len(req.classes) > 0 /\ ParentRef(units, Head(req.classes)) \notin {"absent", "noparent"}
  THEN ParentRef(units, Head(req.classes))
  ELSE IF Len(req.schools) > 0 /\ ParentRef(units, Head(req.schools)) \notin {"absent", "noparent"}
  THEN ParentRef(units, Head(req.schools))
  ELSE NoSite

\* the site of a new administration: the first listed district, else the
\* parent of the first listed group, else the district of the first listed
\* class, else that of the first listed school
resolveSiteId(req, units) ==
  LET consulted == IF Len(req.groups) > 0 THEN Head(req.groups)
                   ELSE IF Len(req.classes) > 0 THEN Head(req.classes)
                   ELSE IF Len(req.schools) > 0 THEN Head(req.schools)
                   ELSE ""
  IN IF Len(req.districts) > 0 THEN Head(req.districts)
     ELSE IF consulted = "" THEN NoSite
     ELSE IF ParentRef(units, consulted) \in {"absent", "noparent"} THEN NoSite
     ELSE ParentRef(units, consulted)

\* the transaction of the handler: its error, the site it resolved and the
\* documents it wrote
upsertTransaction(req, world) ==
  IF req.administrationId
  THEN IF ~world.administrationExists
       THEN [error |-> "not-found", siteId |-> NoSite, writes |-> {}]
       ELSE [error |-> NoError, siteId |-> NoSite, writes |-> {"administration"}]
  ELSE LET siteId == resolveSiteId(req, world.units)
       IN IF siteId = NoSite
          THEN [error |-> "invalid-argument", siteId |-> NoSite, writes |-> {}]
          ELSE [error |-> NoError, siteId |-> siteId,
                writes |-> IF world.userDocExists
                           THEN {"administration", "creatorIndex"}
                           ELSE {"administration"}]

\* the call up to the end of the transaction: the stage that ended it, the
\* error it reports and what it wrote
upsertAdministrationOutcome(req, world) ==
  LET gate == upsertAdministrationGate(req)
      auth == authorizationCheck(world.userClaims)
      valid == inputValidation(req)
      tx == upsertTransaction(req, world)
  IN IF gate # NoError
     THEN [stage |-> "gate", error |-> gate, siteId |-> NoSite, writes |-> {}]
     ELSE IF auth # NoError
     THEN [stage |-> "authorization", error |-> auth, siteId |-> NoSite, writes |-> {}]
     ELSE IF valid # NoError
     THEN [stage |-> "validation", error |-> valid, siteId |-> NoSite, writes |-> {}]
     ELSE [stage |-> "transaction", error |-> tx.error, siteId |-> tx.siteId,
           writes |-> tx.writes]

\* every writer of userClaims documents writes a claims field
UserClaimsDocs == {"nodoc", "plain", "admin", "super_admin"}
DateValues == 0..2
Sites == {"S1", "S2"}
UnitIds == {"g1", "c1", "sc1"}

Call(req, world) ==
  /\ calc = NoCalc
  /\ calc' = [kind |-> "call", req |-> req, world |-> world,
              out |-> upsertAdministrationOutcome(req, world)]
  /\ UNCHANGED <<admins, stats, asg, assigned, administrationsCreated,
                 userOrgs, archived, op, lastInv, events, tasks, faults,
                 nextId, opCount, triggerDeployed, orgDocs, delivered, preRead, roster>>

\* requests over the callers and the administration's fields, for the site
\* S1 and an existing caller document
CheckedCalls ==
  {[uid |-> uid, useNewPermissions |-> new, siteId |-> site, allowed |-> ok,
    name |-> name, assessments |-> assessments,
    dateOpen |-> dateOpen, dateClose |-> dateClose,
    administrationId |-> id,
    districts |-> <<"S1">>, groups |-> << >>, classes |-> << >>, schools |-> << >>] :
     uid \in BOOLEAN, new \in BOOLEAN, site \in BOOLEAN, ok \in BOOLEAN,
     name \in BOOLEAN, assessments \in {"missing", "notArray", "array"},
     dateOpen \in DateValues, dateClose \in DateValues, id \in BOOLEAN}

CheckedWorlds ==
  {[userClaims |-> claims, units |-> [id \in UnitIds |-> "S1"],
    administrationExists |-> exists, userDocExists |-> TRUE] :
     claims \in UserClaimsDocs, exists \in BOOLEAN}

\* creations by an admitted caller with valid fields, over the org lists
\* and the unit documents
CreateCalls ==
  {[uid |-> TRUE, useNewPermissions |-> FALSE, siteId |-> FALSE, allowed |-> FALSE,
    name |-> TRUE, assessments |-> "array", dateOpen |-> 1, dateClose |-> 2,
    administrationId |-> FALSE,
    districts |-> d, groups |-> g, classes |-> c, schools |-> sc] :
     d \in {<< >>, <<"S1">>, <<"S1", "S2">>, <<"S2", "S1">>}, g \in {<< >>, <<"g1">>}, c \in {<< >>, <<"c1">>},
     sc \in {<< >>, <<"sc1">>}}

CreateWorlds ==
  {[userClaims |-> "admin", units |-> units,
    administrationExists |-> FALSE, userDocExists |-> userDoc] :
     units \in [UnitIds -> {"absent", "noparent"} \cup Sites], userDoc \in BOOLEAN}

(***************************************************************************)
(* syncAssignmentsOnUserUpdateEventHandler as a function of the two        *)
(* snapshots of the user document.  A snapshot is absent or carries the    *)
(* userType and, per kind it lists, an org object with its current and     *)
(* all-time ids.  The result is the sequence of the calls it awaits.       *)
(***************************************************************************)
\* _reduce over the lists: the number of ids
numOrgs(lists) == Cardinality(UNION {lists[k] : k \in DOMAIN lists})

NoUserDoc == [exists |-> FALSE, userType |-> "none", orgs |-> << >>]

\* _pick(data, ORG_NAMES) of a snapshot; nothing of an absent one
pickOrgs(data) == IF data.exists THEN data.orgs ELSE << >>

\* the current ids per kind
currentLists(orgs) == [k \in DOMAIN orgs |-> orgs[k].current]

AllIds(lists) == UNION {lists[k] : k \in DOMAIN lists}

\* a handler that looks at the added orgs first
userUpdateHandler_AddedFirst(prevData, currData, userTypes) ==
  LET prevOrgs == pickOrgs(prevData)
      currOrgs == pickOrgs(currData)
      prevOrgLists == currentLists(prevOrgs)
      currOrgLists == currentLists(currOrgs)
      removed == userRemovedOrgs(prevOrgLists, currOrgLists)
      added == userAddedOrgs(prevOrgLists, currOrgLists)
  IN IF ~(currData.exists /\ currData.userType \in userTypes) THEN << >>
     ELSE IF DOMAIN currOrgLists # {} /\ prevOrgs # currOrgs
     THEN (IF numOrgs(added) > 0
           THEN <<[call |-> "processUserAddedOrgs", orgs |-> AllIds(added)]>>
           ELSE << >>)
          \o (IF numOrgs(removed) > 0
              THEN <<[call |-> "processUserRemovedOrgs", orgs |-> AllIds(removed)]>>
              ELSE << >>)
     ELSE << >>

userUpdateHandler(prevData, currData, userTypes) ==
  LET prevOrgs == pickOrgs(prevData)
      currOrgs == pickOrgs(currData)
      prevOrgLists == currentLists(prevOrgs)
      currOrgLists == currentLists(currOrgs)
      removed == userRemovedOrgs(prevOrgLists, currOrgLists)
      added == userAddedOrgs(prevOrgLists, currOrgLists)
  IN IF ~(currData.exists /\ currData.userType \in userTypes) THEN << >>
     ELSE IF DOMAIN currOrgLists # {} /\ prevOrgs # currOrgs
     THEN (IF numOrgs(removed) > 0
           THEN <<[call |-> "processUserRemovedOrgs", orgs |-> AllIds(removed)]>>
           ELSE << >>)
          \o (IF numOrgs(added) > 0
              THEN <<[call |-> "processUserAddedOrgs", orgs |-> AllIds(added)]>>
              ELSE << >>)
     ELSE << >>

\* the userTypes that index.ts hands to the handler
ConfiguredUserTypes == {"student", "parent", "teacher"}

UserUpdate(prevData, currData) ==
  /\ calc = NoCalc
  /\ calc' = [kind |-> "userUpdate", prev |-> prevData, curr |-> currData,
              calls |-> userUpdateHandler(prevData, currData, ConfiguredUserTypes)]
  /\ UNCHANGED <<admins, stats, asg, assigned, administrationsCreated,
                 userOrgs, archived, op, lastInv, events, tasks, faults,
                 nextId, opCount, triggerDeployed, orgDocs, delivered, preRead, roster>>

\* org objects: the current ids and the all-time ids, which contain them
OrgObjects ==
  {[current |-> c, all |-> a] : c \in SUBSET Ids, a \in {Ids}} \cup
  {[current |-> c, all |-> c] : c \in SUBSET Ids}

UserOrgFields == UNION {[K -> OrgObjects] : K \in SUBSET Kinds}

PrevUserDocs ==
  {NoUserDoc} \cup
  {[exists |-> TRUE, userType |-> "student", orgs |-> o] : o \in UserOrgFields}

CurrUserDocs ==
  {NoUserDoc} \cup
  {[exists |-> TRUE, userType |-> t, orgs |-> o] :
     t \in {"student", "admin"}, o \in UserOrgFields}


PureNext ==
  \/ \E prevOrgs, currOrgs \in OrgLists : DiffAdministration(prevOrgs, currOrgs)
  \/ \E prevOrgLists, currOrgLists \in OrgLists : DiffUser(prevOrgLists, currOrgLists)
  \/ \E ch \in Hierarchies, orgs \in SUBSET Orgs : Closure(ch, orgs)
  \/ \E before, after \in Snapshots : Dispatch(before, after)
  \/ \E req \in CheckedCalls, world \in CheckedWorlds : Call(req, world)
  \/ \E req \in CreateCalls, world \in CreateWorlds : Call(req, world)
  \/ \E prevData \in PrevUserDocs, currData \in CurrUserDocs :
        UserUpdate(prevData, currData)

PureSpec == DualInit /\ [][PureNext]_vars

(***************************************************************************)
(* The two paths with both triggers deployed and org lists that the        *)
(* standardization extends, so that the handlers' own writes change the    *)
(* documents they are triggered by.  syncAssignmentsOnUserUpdate is        *)
(* delivered the writes to the index field of a user document; the org     *)
(* fields of the user document are written by no function modelled here,   *)
(* so both snapshots of such an event carry the user's orgs.               *)
(***************************************************************************)
\* the org fields of a user document, one list per kind
userOrgLists(orgs) ==
  [districts |-> orgs \cap {"S1"}, schools |-> orgs \cap {"SC1"},
   classes |-> orgs \cap {"CL1"}]

\* the guard of the user handler and the two calls it decides on
userUpdateCalls(prevOrgLists, currOrgLists) ==
  LET changed == DOMAIN currOrgLists # {} /\ prevOrgLists # currOrgLists
      removed == userRemovedOrgs(prevOrgLists, currOrgLists)
      added == userAddedOrgs(prevOrgLists, currOrgLists)
  IN [removed |-> IF changed /\ numOrgs(removed) > 0
                  THEN UNION {removed[k] : k \in DOMAIN removed} ELSE {},
      added |-> IF changed /\ numOrgs(added) > 0
                THEN UNION {added[k] : k \in DOMAIN added} ELSE {}]

\* the user loses the assignments of the administrations that reach them
\* through the removed orgs only
processUserRemovedOrgs(st, u, removed) ==
  [st EXCEPT
     !.asg[u] = [a \in AdminIds |->
                   IF admins[a].orgs \cap removed # {}
                      /\ admins[a].orgs \cap userOrgs[u] = {}
                   THEN NoAssignment ELSE st.asg[u][a]],
     !.assigned[u] = {a \in st.assigned[u] :
                        ~(admins[a].orgs \cap removed # {}
                          /\ admins[a].orgs \cap userOrgs[u] = {})}]

\* the user gains the assignments of the administrations that list one of
\* the added orgs
processUserAddedOrgs(st, u, added) ==
  [st EXCEPT
     !.asg[u] = [a \in AdminIds |->
                   IF admins[a].exists /\ admins[a].orgs \cap added # {}
                      /\ ~st.asg[u][a].exists
                   THEN [exists |-> TRUE, def |-> admins[a].def]
                   ELSE st.asg[u][a]],
     !.assigned[u] = st.assigned[u] \cup
                        {a \in AdminIds : admins[a].exists
                                            /\ admins[a].orgs \cap added # {}}]

\* syncAssignmentsOnUserUpdate for a write to the index field of user u
UserTrigger(u) ==
  /\ triggerDeployed
  /\ delivered[u] # assigned[u]
  /\ LET calls == userUpdateCalls(userOrgLists(userOrgs[u]),
                                  userOrgLists(userOrgs[u]))
         st1 == IF calls.removed # {}
                THEN processUserRemovedOrgs(CurStore, u, calls.removed)
                ELSE CurStore
         st2 == IF calls.added # {}
                THEN processUserAddedOrgs(st1, u, calls.added) ELSE st1
     IN /\ asg' = st2.asg
        /\ assigned' = st2.assigned
        /\ delivered' = [delivered EXCEPT ![u] = assigned[u]]
  /\ lastInv' = [NoInv EXCEPT !.kind = "userTrigger"]
  /\ UNCHANGED <<admins, stats, administrationsCreated, userOrgs, archived,
                 op, events, tasks, faults, nextId, opCount, triggerDeployed,
                 calc, orgDocs, preRead, roster>>

\* the handler runs for different users write nothing and are taken in the
\* order of the user ids
IsNextDelivery(u) ==
  \E k \in 1..Len(UserOrder) :
     /\ UserOrder[k] = u
     /\ \A j \in 1..(k - 1) : delivered[UserOrder[j]] = assigned[UserOrder[j]]

ChainInputOrgs == {{"SC1"}, {"CL1"}}

\* nothing of an earlier upsert is left to deliver or to run
ChainDrained == Drained /\ delivered = assigned

\* the faults of a chain: a chunk of the synchronous path whose first
\* sub-chunk transaction fails
ChainFaultPoints == {"none", "sub1"}

ChainDefs == {1}

\* the upserts of one run, and the failures among their chunks
ChainOps == 2
ChainFaults == 1

ChainNext ==
  \/ \E orgsIn \in ChainInputOrgs, def \in ChainDefs :
        ChainDrained /\ opCount < ChainOps /\ UpsertCreate(orgsIn, def, FALSE)
  \/ \E a \in AdminIds, orgsIn \in ChainInputOrgs, def \in ChainDefs :
        ChainDrained /\ opCount < ChainOps /\ UpsertUpdate(a, orgsIn, def, FALSE)
  \/ SyncStart
  \/ RemoveStep(FALSE)
  \/ StandardizeStep(FALSE)
  \/ \E fault \in ChainFaultPoints :
        (fault # "none" => faults < ChainFaults) /\ ChunkStep(fault, FALSE)
  \/ RollbackStep(FALSE, FALSE, FALSE, FALSE)
  \/ \E e \in events : TriggerRemoved(e)
  \/ \E e \in events : TriggerNew(e)
  \/ \E e \in events : TriggerModified(e)
  \/ \E t \in tasks : TaskRun(t, "none", FALSE)
  \/ \E u \in Users : IsNextDelivery(u) /\ UserTrigger(u)

ChainSpec == DualInit /\ [][ChainNext]_vars

(***************************************************************************)
(* Two calls of upsertAdministration for the same administration: one      *)
(* reads the previous data, the other runs in full, then the first runs    *)
(* its transaction and its synchronisation.                                *)
(***************************************************************************)
RaceNext ==
  \/ \E orgsIn \in InputOrgs, def \in Defs :
        opCount < ChainOps /\ UpsertCreate(orgsIn, def, FALSE)
  \/ \E a \in AdminIds, orgsIn \in InputOrgs, def \in Defs :
        opCount < ChainOps /\ UpsertUpdate(a, orgsIn, def, FALSE)
  \/ \E a \in AdminIds, orgsIn \in InputOrgs, def \in Defs :
        UpsertPreRead(a, orgsIn, def)
  \/ UpsertAfterPreRead
  \/ SyncStart
  \/ RemoveStep(FALSE)
  \/ StandardizeStep(FALSE)
  \/ \E fault \in ChainFaultPoints :
        (fault # "none" => faults < ChainFaults) /\ ChunkStep(fault, FALSE)
  \/ RollbackStep(FALSE, FALSE, FALSE, FALSE)

RaceSpec == Init /\ [][RaceNext]_vars

(***************************************************************************)
(* The roles of one administrator: _createAdministratorWithRoles,          *)
(* updateAdministratorRoles and removeAdministratorRoles.  A role is a     *)
(* site id with a role name (the site name does not enter any decision);   *)
(* an entry of a district's administrators list carries the siteId field   *)
(* ("none" when the entry has no such field), the role and the status.     *)
(***************************************************************************)
RoleDefinitions ==
  {[siteId |-> s, role |-> r] : s \in Districts, r \in {"admin", "site_admin"}}

\* the roles arrays of the requests: one or two role definitions
RoleInputs ==
  {<<r>> : r \in RoleDefinitions} \cup
  {<<r1, r2>> : r1 \in RoleDefinitions, r2 \in RoleDefinitions}

\* sanitizeRoles on well-formed roles: _uniqBy on siteId::role keeps the
\* first occurrence of every role definition
RECURSIVE sanitizeRoles(_)
sanitizeRoles(roles) ==
  IF Len(roles) = 0 THEN << >>
  ELSE LET front == sanitizeRoles(SubSeq(roles, 1, Len(roles) - 1))
           r == roles[Len(roles)]
       IN IF \E i \in 1..Len(front) : front[i] = r THEN front
          ELSE Append(front, r)

\* the roles read back from the siteRoles object of the claims: site by
\* site, the sites in the order of their first occurrence
extractRolesFromClaims(claims) ==
  LET RECURSIVE siteOrder(_)
      siteOrder(roles) ==
        IF Len(roles) = 0 THEN << >>
        ELSE LET front == siteOrder(SubSeq(roles, 1, Len(roles) - 1))
                 s == roles[Len(roles)].siteId
             IN IF \E i \in 1..Len(front) : front[i] = s THEN front
                ELSE Append(front, s)
      sites == siteOrder(claims)
  IN sanitizeRoles(Flatten([i \in 1..Len(sites) |->
                     SelectSeq(claims, LAMBDA r : r.siteId = sites[i])]))

\* Map.set for every role in turn: the value of a key that is present is
\* replaced in place, a new key is appended
RECURSIVE mapSetAll(_, _)
mapSetAll(m, roles) ==
  IF Len(roles) = 0 THEN m
  ELSE LET r == Head(roles)
           set == IF \E i \in 1..Len(m) : m[i].siteId = r.siteId
                  THEN [i \in 1..Len(m) |->
                          IF m[i].siteId = r.siteId THEN r ELSE m[i]]
                  ELSE Append(m, r)
       IN mapSetAll(set, Tail(roles))

\* the entry that arrayUnion adds for a role: it has no siteId field
CreatedEntry(role) == [siteId |-> "none", role |-> role.role, status |-> "active"]

RosterOps == 3

createAdministratorWithRoles(roles) ==
  /\ roster.n < RosterOps
  /\ LET sanitizedRoles == sanitizeRoles(roles)
         isExistingUser == roster.userDoc
         roleClaims ==
           IF isExistingUser
           \* the roles array of buildRoleClaimsStructure
           THEN sanitizeRoles(
                  sanitizeRoles(extractRolesFromClaims(roster.claims)
                                  \o sanitizedRoles))
           ELSE sanitizeRoles(sanitizedRoles)
     IN roster' =
          [userDoc |-> TRUE, roles |-> roleClaims, claims |-> roleClaims,
           administrators |->
             [s \in Districts |->
                roster.administrators[s] \cup
                  {CreatedEntry(sanitizedRoles[i]) :
                     i \in {j \in 1..Len(sanitizedRoles) :
                              sanitizedRoles[j].siteId = s}}],
           last |-> [kind |-> "create", siteId |-> "none"],
           n |-> roster.n + 1]
  /\ UNCHANGED <<admins, stats, asg, assigned, administrationsCreated,
                 userOrgs, archived, op, lastInv, events, tasks, faults,
                 nextId, opCount, triggerDeployed, calc, orgDocs, delivered,
                 preRead>>

updateAdministratorRoles(updatedRoles) ==
  /\ roster.n < RosterOps
  /\ roster.userDoc
  /\ LET currentRoles == sanitizeRoles(roster.roles)
         mergedRolesMap == mapSetAll(mapSetAll(<< >>, currentRoles), updatedRoles)
         mergedRoles == sanitizeRoles(mergedRolesMap)
         siteIdsToUpdate == {updatedRoles[i].siteId : i \in 1..Len(updatedRoles)}
         roleAt(s) == (CHOOSE i \in 1..Len(mergedRolesMap) :
                          mergedRolesMap[i].siteId = s)
         updatedAdministrators(s) ==
           {e \in roster.administrators[s] : e.siteId # s} \cup
             {[siteId |-> s, role |-> mergedRolesMap[roleAt(s)].role,
               status |-> "active"]}
     IN roster' =
          [roster EXCEPT
             !.roles = mergedRoles,
             !.claims = sanitizeRoles(mergedRoles),
             !.administrators =
                [s \in Districts |->
                   IF s \in siteIdsToUpdate THEN updatedAdministrators(s)
                   ELSE roster.administrators[s]],
             !.last = [kind |-> "update", siteId |-> "none"],
             !.n = roster.n + 1]
  /\ UNCHANGED <<admins, stats, asg, assigned, administrationsCreated,
                 userOrgs, archived, op, lastInv, events, tasks, faults,
                 nextId, opCount, triggerDeployed, calc, orgDocs, delivered,
                 preRead>>

removeAdministratorRoles(siteId) ==
  /\ roster.n < RosterOps
  /\ roster.userDoc
  /\ LET currentRoles == sanitizeRoles(roster.roles)
         remainingRoles ==
           sanitizeRoles(SelectSeq(currentRoles, LAMBDA r : r.siteId # siteId))
         administrators == roster.administrators[siteId]
         existing == {e \in administrators : e.siteId = siteId}
         otherAdministrators == {e \in administrators : e.siteId # siteId}
         updatedAdministrators ==
           IF existing # {}
           THEN otherAdministrators \cup
                  {[(CHOOSE e \in existing : TRUE) EXCEPT !.status = "inactive"]}
           ELSE otherAdministrators
     IN roster' =
          [roster EXCEPT
             !.roles = remainingRoles,
             !.claims = sanitizeRoles(remainingRoles),
             !.administrators = [@ EXCEPT ![siteId] = updatedAdministrators],
             !.last = [kind |-> "remove", siteId |-> siteId],
             !.n = roster.n + 1]
  /\ UNCHANGED <<admins, stats, asg, assigned, administrationsCreated,
                 userOrgs, archived, op, lastInv, events, tasks, faults,
                 nextId, opCount, triggerDeployed, calc, orgDocs, delivered,
                 preRead>>

RosterNext ==
  \/ \E roles \in RoleInputs : createAdministratorWithRoles(roles)
  \/ \E updatedRoles \in RoleInputs : updateAdministratorRoles(updatedRoles)
  \/ \E siteId \in Districts : removeAdministratorRoles(siteId)

RosterSpec == DualInit /\ [][RosterNext]_vars


(***************************************************************************)
(* Properties.                                                             *)
(***************************************************************************)
Returned == op.pc = "done"

\* the synchronous creation failed at an org chunk and the call has returned
CreationFailedAtChunk ==
  /\ Returned /\ op.kind = "create" /\ op.failedIn = "chunk"

\* the synchronous update failed at an org chunk and the call has returned
UpdateFailedAtChunk ==
  /\ Returned /\ op.kind = "update" /\ op.failedIn = "chunk"

NoTraceOf(a) ==
  /\ ~admins[a].exists
  /\ a \notin administrationsCreated
  /\ \A u \in Users : ~asg[u][a].exists /\ a \notin assigned[u]

C5_OriginalErrorPropagates ==
  CreationFailedAtChunk => op.err = "chunk"

\* C6: a failed synchronous sync of a new administration never returns ok;
\* the caller receives an internal error.
C6_CreateFailureIsInternal ==
  (Returned /\ op.kind = "create"
     /\ op.failedIn \in {"standardize", "chunk"}) => op.result = "internal"

\* C6 witness: a creation whose chunk failed has returned internal
C6_Witness == CreationFailedAtChunk /\ op.result = "internal"

\* C7: a failed synchronous sync of an update is only logged: the call
\* returns ok and the document keeps what the update wrote (the new
\* definition; the org lists as written or as standardized from them).
C7_UpdateFailureReturnsOk ==
  (Returned /\ op.kind = "update"
     /\ op.failedIn \in {"remove", "standardize", "chunk"}) =>
     /\ op.result = "ok"
     /\ admins[op.a].exists
     /\ admins[op.a].def = op.def
     /\ admins[op.a].orgs \in {op.in, standardizeAdministrationOrgs(op.in)}

\* C7 witness: an update that changed the definition and whose sync failed
C7_Witness ==
  /\ Returned /\ op.kind = "update"
  /\ op.failedIn \in {"remove", "standardize", "chunk"}
  /\ op.result = "ok"
  /\ op.prev.def # op.def
  /\ admins[op.a].def = op.def

\* C8: when the sync of an update fails at an org chunk after earlier
\* chunks had been applied, and the failing chunk itself wrote nothing, the
\* user-level effects of the earlier chunks are reverted: the assignments
\* are what they were when the chunk loop started.
C8_UpdateChunksCompensated ==
  (UpdateFailedAtChunk /\ op.failedAt > 1 /\ lastInv.kind = "inv"
     /\ lastInv.fault = "resolve") => asg = op.asg0

\* C9: after a failed operation has been rolled back the net change of the
\* administration's assigned-users counter is zero.
C9_StatsNetZero ==
  (CreationFailedAtChunk /\ ~op.rbFailed) => stats[op.a] = op.stats0

\* C10: the chunk handler increments the counter only in add mode, only
\* when every user of the chunk has been written, once and by the number of
\* users; update mode, no users or a failure never increase it.
C10_StatsIncrement ==
  lastInv.kind = "inv" =>
    LET delta == lastInv.statsAfter - lastInv.statsBefore
    IN /\ (lastInv.mode = "add" /\ lastInv.success /\ lastInv.nUsers > 0)
            => (delta = lastInv.nUsers /\ lastInv.incs = 1)
       /\ (lastInv.mode # "add" \/ ~lastInv.success \/ lastInv.nUsers = 0)
            => (delta <= 0 /\ lastInv.incs = 0)

\* C10 witness: an add-mode chunk of three users, written in two user
\* sub-chunks, has incremented the counter by three
C10_Witness ==
  /\ lastInv.kind = "inv" /\ lastInv.mode = "add" /\ lastInv.success
  /\ lastInv.nUsers > MAX_TRANSACTIONS
  /\ lastInv.statsAfter = lastInv.statsBefore + lastInv.nUsers

(***************************************************************************)
(* Properties of the two paths together.                                   *)
(***************************************************************************)
Quiescent == op.pc \in {"idle", "done"} /\ events = {} /\ tasks = {}

InClosure(u, a) ==
  userOrgs[u] \cap standardizeAdministrationOrgs(admins[a].orgs) # {}

\* C2: membership correctness.  At quiescence every non-archived user has an
\* assignment for an administration exactly when the user's current orgs
\* meet the closure of the administration's orgs.
C2_MembershipCorrect ==
  Quiescent =>
    \A a \in AdminIds, u \in Users :
      (admins[a].exists /\ ~archived[u]) =>
         (asg[u][a].exists <=> InClosure(u, a))

RECURSIVE SumUsers(_)
SumUsers(orgChunks) ==
  IF Len(orgChunks) = 0 THEN 0
  ELSE Len(getUsersFromOrgsIn(userOrgs, archived, Head(orgChunks), FALSE))
       + SumUsers(Tail(orgChunks))

\* the counter after one application of the add-mode chunks of a
SingleApplicationCount(a) ==
  SumUsers(chunkOrgs(standardizeAdministrationOrgs(admins[a].orgs),
                     ORG_CHUNK_SIZE))

\* C3: dual-path safety.  Once a creation has been processed by the
\* synchronous path and by the change-triggered path, without any store
\* error, the assignments and the assigned-users counter are those of a
\* single application.
C3_DualPathSingleApplication ==
  (Quiescent /\ faults = 0 /\ opCount = 1 /\ op.kind = "create"
     /\ op.result = "ok") =>
     /\ \A u \in Users :
          asg[u][op.a].exists <=> (~archived[u] /\ InClosure(u, op.a))
     /\ stats[op.a] = SingleApplicationCount(op.a)

\* C4: a second add-mode run of the chunk handler for the same
\* administration and org chunk, right after a successful first one, leaves
\* the store (assignments, index, counter) as the first run left it.
C4_AddTwiceSameAsOnce ==
  (lastInv.kind = "inv" /\ lastInv.repeat /\ lastInv.mode = "add"
     /\ lastInv.success) => lastInv.same

\* the synchronous sync of an update failed and the call has returned
UpdateSyncFailed ==
  /\ Returned /\ op.kind = "update"
  /\ op.failedIn \in {"remove", "standardize", "chunk"}

\* every non-archived user of the closure of administration a has an
\* assignment that carries the administration's current definition
Repaired(a) ==
  \A u \in Users :
     (~archived[u] /\ InClosure(u, a)) =>
        /\ asg[u][a].exists
        /\ asg[u][a].def = admins[a].def

\* C12: eventual repair.  Once the synchronous sync of an update of an
\* administration has failed and the change-triggered path has nothing left
\* to run (every event is delivered, every task has been executed, so that
\* no scheduling can change the state any more), every non-archived user of
\* the administration's closure has an assignment that carries its current
\* definition (or the administration is gone).
C12_EventualRepair ==
  (Quiescent /\ UpdateSyncFailed) =>
     (~admins[op.a].exists \/ Repaired(op.a))

\* the trigger has just finished handling the deletion of lastInv.a
DeletionHandled == lastInv.kind = "removed"

\* C13: deletion.  When the change-triggered handler has finished handling
\* the deletion of an administration document, the id is not in the
\* creator's index and no user, archived or not, has an assignment
\* sub-record or an index entry for it.
C13_DeletionRemovesAll ==
  DeletionHandled =>
     /\ lastInv.a \notin administrationsCreated
     /\ \A u \in Users :
           ~asg[u][lastInv.a].exists /\ lastInv.a \notin assigned[u]

\* the deletion was handled while the stored org lists were exhaustive
T_C13_Drained ==
  (DeletionHandled /\ Drained) => C13_DeletionRemovesAll

(***************************************************************************)
(* Properties of the synchronous path, continued.                          *)
(***************************************************************************)
CreatedOk == Returned /\ op.kind = "create" /\ op.result = "ok"

\* the add-mode applications a complete creation consists of
ExpectedApplications(orgsIn) ==
  LET cs == chunkOrgs(standardizeAdministrationOrgs(orgsIn), ORG_CHUNK_SIZE)
  IN [k \in 1..Len(cs) |-> [orgChunk |-> cs[k], mode |-> "add"]]

\* C11: when upsertAdministration returns ok for a new administration,
\* every org chunk of its standardized org set has been applied
\* successfully in add mode, in order, and every non-archived user of the
\* closure has the assignment.
C11_AllChunksAppliedOnOk ==
  CreatedOk =>
    /\ op.applied = ExpectedApplications(op.in)
    /\ \A u \in Users :
          (~archived[u] /\ InClosure(u, op.a)) => asg[u][op.a].exists

\* C11 witness: a creation of more than one chunk has returned ok
C11_Witness == CreatedOk /\ Len(op.applied) > 1

\* C17: scenario A.  An administration created for the site S1 alone is
\* standardized to the site, its school and its class, and after the
\* create returned ok each of the three non-archived students of the class
\* has an assignment for it.
C17_ScenarioA ==
  (CreatedOk /\ op.in = {"S1"} /\ \A u \in Users : ~archived[u]) =>
     /\ admins[op.a].orgs = {"S1", "SC1", "CL1"}
     /\ \A u \in Users : asg[u][op.a].exists /\ op.a \in assigned[u]

\* C17 witness: scenario A has run
C17_Witness ==
  /\ CreatedOk /\ op.in = {"S1"} /\ \A u \in Users : ~archived[u]
  /\ \A u \in Users : asg[u][op.a].exists

\* the stored org lists of a document hold every dependent unit
Exhaustive(doc) == doc.orgs = standardizeAdministrationOrgs(doc.orgs)

\* C15: once the stored org lists of an administration are the exhaustive
\* closure, they are the exhaustive closure of what is stored in every
\* later state in which the document exists, also after a later update.
C15_StaysExhaustive ==
  [][\A a \in AdminIds :
       (admins[a].exists /\ Exhaustive(admins[a]) /\ admins'[a].exists)
          => Exhaustive(admins'[a])]_vars

\* an update to no orgs of an administration that stored the site, the
\* school and the class has returned without a failure
ScenarioB ==
  /\ Returned /\ op.kind = "update" /\ op.failedIn = "none"
  /\ op.prev.orgs = {"S1", "SC1", "CL1"} /\ op.in = {}

\* C18: scenario B.  An administration targeting the site, its school and
\* its class is updated to target nothing: the removed set after closure
\* expansion is the site, the school and the class, and once the update has
\* returned no student of the class has the assignment.
C18_ScenarioB ==
  ScenarioB =>
    /\ op.removedExhaustiveOrgs = {"S1", "SC1", "CL1"}
    /\ \A u \in Users : ~asg[u][op.a].exists /\ op.a \notin assigned[u]

\* C18 witness: scenario B has run on an administration whose three
\* students had the assignment
C18_Witness ==
  /\ ScenarioB /\ op.result = "ok"
  /\ op.unassigned = Users
  /\ \A u \in Users : ~archived[u] /\ ~asg[u][op.a].exists

\* C20: a failure inside the chunk handler is returned, and the returned
\* user ids contain every user whose write had been committed before the
\* failure, in add mode and in update mode.
C20_ReturnedIdsCoverCommitted ==
  (lastInv.kind = "inv" /\ ~lastInv.success) =>
     Range(lastInv.committed) \subseteq Range(lastInv.userIds)


\* an update call of an id without a document takes its step
UpdateOfAbsent ==
  /\ op.pc \in {"idle", "done"}
  /\ op' # op /\ op'.kind = "update"
  /\ ~admins[op'.a].exists
  /\ op'.failedIn # "transaction"

\* C22: not-found.  An upsert that names an administration id without a
\* document returns not-found at once: no administration document is
\* created, no creator index changes, no assignment and no counter is
\* touched, and nothing is handed to the change-triggered path.
C22_NotFoundWritesNothing ==
  [][UpdateOfAbsent =>
       /\ op'.pc = "done" /\ op'.result = "not-found"
       /\ UNCHANGED <<admins, administrationsCreated, asg, assigned, stats,
                      events, tasks>>]_vars

\* C22 witness: an update of a missing administration has returned
C22_Witness ==
  /\ Returned /\ op.kind = "update" /\ op.result = "not-found"
  /\ ~admins[op.a].exists

\* the sync after the committed transaction failed and the call has returned
SyncFailedAfterCommit ==
  /\ Returned
  /\ op.failedIn \in {"remove", "standardize", "chunk"}

\* C25 as stated: a sync failure after the commit is reported as internal
\* on the update path, and only there.
C25_InternalOnUpdateOnly ==
  SyncFailedAfterCommit => (op.result = "internal" <=> op.kind = "update")

\* C25 amended: a sync failure after the commit is reported as internal
\* on the create path, and only there; on the update path the call
\* returns ok.
C25_InternalOnCreateOnly ==
  SyncFailedAfterCommit =>
    /\ op.result = "internal" <=> op.kind = "create"
    /\ op.kind = "update" => op.result = "ok"

\* C25 witness: an update whose chunk failed after the commit returned ok
C25_Witness ==
  /\ SyncFailedAfterCommit /\ op.kind = "update" /\ op.failedIn = "chunk"
  /\ admins[op.a].def = op.def
  /\ op.result = "ok"


(***************************************************************************)
(* Properties of the call up to its transaction.                           *)
(***************************************************************************)
\* the call of this state got past the gate and the authorization check
Admitted ==
  /\ calc.kind = "call"
  /\ calc.req.uid
  /\ calc.req.useNewPermissions => (calc.req.siteId /\ calc.req.allowed)
  /\ calc.world.userClaims \in {"admin", "super_admin"}

FieldMissing ==
  \/ ~calc.req.name \/ calc.req.assessments \in {"missing", "notArray"}
  \/ calc.req.dateOpen = 0 \/ calc.req.dateClose = 0

\* C21: validation.  An upsert of an admitted caller whose name,
\* assessments (missing or not an array), dateOpen or dateClose is missing,
\* or whose dateClose is earlier than its dateOpen, is rejected with
\* invalid-argument and has written nothing; one whose fields are present
\* and whose dateClose equals its dateOpen gets past the validation.
C21_ValidationRejects ==
  Admitted =>
    /\ (FieldMissing \/ calc.req.dateClose < calc.req.dateOpen) =>
          /\ calc.out.stage = "validation"
          /\ calc.out.error = "invalid-argument"
          /\ calc.out.writes = {}
    /\ (~FieldMissing /\ calc.req.dateClose = calc.req.dateOpen) =>
          calc.out.stage = "transaction"

\* C21 witness: all fields present, the closing date before the opening date
C21_Witness ==
  /\ Admitted /\ ~FieldMissing
  /\ calc.req.dateClose < calc.req.dateOpen
  /\ calc.out.error = "invalid-argument"

\* the call of this state fails the first authorization check it reaches
FailsAuthorization ==
  /\ calc.kind = "call"
  /\ calc.req.uid
  /\ \/ calc.req.useNewPermissions /\ calc.req.siteId /\ ~calc.req.allowed
     \/ /\ calc.req.useNewPermissions => (calc.req.siteId /\ calc.req.allowed)
        /\ calc.world.userClaims \in {"nodoc", "plain"}

\* C23: authorization.  A call that the capability check denies at the
\* requested site, or whose caller's userClaims document is missing or has
\* neither admin nor super_admin set to true, fails with permission-denied
\* and has written nothing.
C23_AuthorizationDenies ==
  FailsAuthorization =>
    /\ calc.out.error = "permission-denied"
    /\ calc.out.writes = {}

\* C23 witness: the capability check admits the caller at the site, the
\* userClaims document exists and sets neither admin nor super_admin
C23_Witness ==
  /\ FailsAuthorization
  /\ calc.req.useNewPermissions /\ calc.req.allowed
  /\ calc.world.userClaims = "plain"
  /\ calc.out.stage = "authorization"
  /\ calc.out.error = "permission-denied"

\* the site the words of the claim give for the creation of this state:
\* the first listed district, else the parent of the first listed group,
\* else the district of the first listed class, else that of the first
\* listed school; NoSite when the unit consulted is absent or names no site
ClaimedSite ==
  LET req == calc.req
      units == calc.world.units
      OfUnit(id) == IF units[id] \in Sites THEN units[id] ELSE NoSite
  IN IF req.districts # << >> THEN Head(req.districts)
     ELSE IF req.groups # << >> THEN OfUnit(Head(req.groups))
     ELSE IF req.classes # << >> THEN OfUnit(Head(req.classes))
     ELSE IF req.schools # << >> THEN OfUnit(Head(req.schools))
     ELSE NoSite

CreationReachedTransaction ==
  /\ calc.kind = "call" /\ ~calc.req.administrationId
  /\ calc.out.stage = "transaction"

\* C24: site of a new administration.  A creation that reaches its
\* transaction stores the claimed site with the document; when there is
\* none it fails with invalid-argument and writes neither the document nor
\* the creator's index entry.
C24_SiteResolution ==
  CreationReachedTransaction =>
    IF ClaimedSite # NoSite
    THEN /\ calc.out.error = NoError
         /\ calc.out.siteId = ClaimedSite
         /\ "administration" \in calc.out.writes
    ELSE /\ calc.out.error = "invalid-argument"
         /\ calc.out.writes = {}

\* C24 witness: no district and no group listed, the site comes from the
\* first listed class although a school is listed too
C24_Witness ==
  /\ CreationReachedTransaction
  /\ calc.req.districts = << >> /\ calc.req.groups = << >>
  /\ calc.req.classes # << >> /\ calc.req.schools # << >>
  /\ calc.world.units["c1"] = "S2" /\ calc.world.units["sc1"] = "S1"
  /\ calc.out.siteId = "S2"

\* C24 second case: a listed group without a parent fails the creation
\* although a class that names a site is listed as well
T_C24_NoFallThrough ==
  (/\ CreationReachedTransaction
   /\ calc.req.districts = << >> /\ calc.req.groups # << >>
   /\ calc.world.units["g1"] \in {"absent", "noparent"})
     => calc.out.error = "invalid-argument"


(***************************************************************************)
(* Properties of the chunk loops.                                          *)
(***************************************************************************)
\* the user sub-chunks of an invocation, in the order of the second loop
SubChunksOf(inv) ==
  Chunk(remainingUsers(getUsersFromOrgsIn(userOrgs, archived, inv.chunk, FALSE)),
        MAX_TRANSACTIONS)

\* the sub-chunk transactions that committed are the first k of the list,
\* in list order; k stops in front of the failing one
SubChunksInOrder(inv) ==
  LET subs == SubChunksOf(inv)
  IN Len(subs) > 0 =>
       \E k \in 0..Len(subs) :
          /\ inv.committed = Flatten(SubSeq(subs, 1, k))
          /\ SubIndex(inv.fault) # 0 => k = SubIndex(inv.fault) - 1
          /\ inv.fault \in {"none", "stats"} => k = Len(subs)

\* a step of the synchronous chunk loop
ChunkLoopStep == op.pc = "chunks" /\ op' # op

\* C27: sequential processing.  Within one synchronous create or update the
\* org chunks are handed to the handler one after another in list order,
\* and so are the user sub-chunks of a chunk; once a chunk or a sub-chunk
\* has failed, no later one is started.
C27_SequentialInOrder ==
  [][(ChunkLoopStep \/ (lastInv' # lastInv /\ lastInv'.kind = "inv"))
       => /\ op.pc = "chunks"
          /\ op.failedAt = 0
          /\ op.i = Len(op.applied) + 1
          /\ \A k \in 1..Len(op.applied) : op.applied[k].orgChunk = op.chunks[k]
          /\ lastInv'.chunk = op.chunks[op.i]
          /\ SubChunksInOrder(lastInv')
          /\ lastInv'.success => op'.applied = Append(op.applied,
                                    [orgChunk |-> op.chunks[op.i], mode |-> lastInv'.mode])
          /\ ~lastInv'.success => op'.pc # "chunks"]_vars

\* after earlier chunks were applied, a chunk with two user sub-chunks fails
\* in the first of them, and the second is not run
C27_Witness ==
  /\ lastInv.kind = "inv" /\ ~lastInv.viaTask
  /\ Len(op.applied) >= 1
  /\ op.failedAt = Len(op.applied) + 1
  /\ lastInv.fault = "sub1"
  /\ Len(SubChunksOf(lastInv)) = 2
  /\ lastInv.committed = << >>

\* the users each transaction of an invocation is given to write: the
\* resolving transaction first, then the sub-chunk transactions
HandlerTransactions(usersToUpdate) ==
  <<firstTransactionUsers(usersToUpdate)>>
    \o Chunk(remainingUsers(usersToUpdate), MAX_TRANSACTIONS)

\* C28: bounded transactions.  Every transaction of the chunk handler
\* writes at most MAX_TRANSACTIONS users; a resolved set of at most
\* MAX_TRANSACTIONS users is written whole by the resolving transaction;
\* a larger one is not written by it at all and is split into consecutive
\* sub-chunks of at most MAX_TRANSACTIONS users, each user in exactly one.
C28_BoundedTransactions ==
  lastInv.kind = "inv" =>
    LET users == getUsersFromOrgsIn(userOrgs, archived, lastInv.chunk, FALSE)
        txs == HandlerTransactions(users)
        subs == Tail(txs)
    IN /\ \A k \in 1..Len(txs) : Len(txs[k]) <= MAX_TRANSACTIONS
       /\ Len(users) <= MAX_TRANSACTIONS => txs[1] = users /\ subs = << >>
       /\ Len(users) > MAX_TRANSACTIONS =>
            /\ txs[1] = << >>
            /\ Flatten(subs) = users
            /\ \A k \in 1..Len(subs) : Len(subs[k]) >= 1
            /\ \A u \in Range(users) :
                  Cardinality({k \in 1..Len(subs) : u \in Range(subs[k])}) = 1
       /\ lastInv.success =>
            /\ lastInv.committed = Flatten(txs)
            /\ lastInv.mode = "add" =>
                 \A u \in Range(users) : asg[u][lastInv.a].exists

\* an invocation that resolved more than MAX_TRANSACTIONS users and wrote
\* them all
C28_Witness ==
  /\ lastInv.kind = "inv" /\ lastInv.success
  /\ lastInv.nUsers > MAX_TRANSACTIONS
  /\ Len(lastInv.committed) = lastInv.nUsers

TriggerFiring ==
  \/ \E e \in events : TriggerRemoved(e) \/ TriggerNew(e) \/ TriggerModified(e)
  \/ \E u \in Users : UserTrigger(u)

\* C30: trigger re-entrancy terminates.  The handlers write to the
\* documents that trigger them, yet no run of the system has infinitely
\* many handler runs: from some point on no handler runs any more.
C30_ChainsAreFinite == <>[][~TriggerFiring]_vars

\* the standardizing write of a handler or of the synchronous path changed
\* the administration document and its event is waiting for the handler,
\* together with the event of a write to a user document
C30_Witness ==
  /\ \E e \in events :
        /\ e.before.exists /\ e.after.exists
        /\ e.before.orgs # e.after.orgs
        /\ e.after.orgs = standardizeAdministrationOrgs(e.before.orgs)
  /\ \E u \in Users : delivered[u] # assigned[u]

(***************************************************************************)
(* Properties of the user handler.                                         *)
(***************************************************************************)
\* the current ids of a kind in a snapshot, none when the kind or the
\* document is missing
CurrentOf(data, kind) ==
  IF data.exists /\ kind \in DOMAIN data.orgs THEN data.orgs[kind].current ELSE {}

CurrentChanged(prevData, currData) ==
  \E kind \in Kinds : CurrentOf(prevData, kind) # CurrentOf(currData, kind)

\* C31: the user handler's frame.  It processes nothing when the userType
\* is not configured, when the document was deleted, when the org fields
\* are unchanged or when no id entered or left a current list; when ids
\* both left and entered, it calls processUserRemovedOrgs with the ids
\* that left and then processUserAddedOrgs with those that entered.
C31_UserHandlerFrame ==
  calc.kind = "userUpdate" =>
    LET p == calc.prev
        c == calc.curr
        left == UNION {CurrentOf(p, k) \ CurrentOf(c, k) : k \in Kinds}
        entered == UNION {CurrentOf(c, k) \ CurrentOf(p, k) : k \in Kinds}
    IN /\ (\/ ~c.exists
           \/ c.userType \notin ConfiguredUserTypes
           \/ pickOrgs(p) = pickOrgs(c)
           \/ ~CurrentChanged(p, c)) => calc.calls = << >>
       /\ \A k \in 1..Len(calc.calls) :
             \/ calc.calls[k] = [call |-> "processUserRemovedOrgs", orgs |-> left]
             \/ calc.calls[k] = [call |-> "processUserAddedOrgs", orgs |-> entered]
       /\ Len(calc.calls) = 2 =>
             /\ calc.calls[1].call = "processUserRemovedOrgs"
             /\ calc.calls[2].call = "processUserAddedOrgs"

\* a write that took an id out of one current list and put one into
\* another: both calls, in this order
C31_Witness ==
  /\ calc.kind = "userUpdate"
  /\ Len(calc.calls) = 2
  /\ calc.calls[1].orgs # {} /\ calc.calls[2].orgs # {}

(***************************************************************************)
(* Properties of the store once every path has finished.                   *)
(***************************************************************************)
\* C33: no orphan assignments.  Once the synchronous call has returned and
\* every event and task has been worked off, no user holds an assignment
\* of an administration whose document does not exist.
C33_NoOrphanAssignments ==
  Quiescent =>
    \A u \in Users, a \in AdminIds : asg[u][a].exists => admins[a].exists

(***************************************************************************)
(* Properties of two overlapping updates of one administration.            *)
(***************************************************************************)
\* C34: the previous org lists that updateAssignments diffs against are the
\* lists the same call's update transaction overwrote, also when another
\* upsert of the administration committed after the call read them
C34_PrevIsOverwritten ==
  [][(op.pc # "sync" /\ op'.pc = "sync" /\ op'.kind = "update")
       => op'.prev.orgs = admins[op'.a].orgs]_vars

(***************************************************************************)
(* Properties of an update that names the units already targeted.          *)
(***************************************************************************)
\* the call is an update whose supplied lists have the closure that the
\* administration stored before the call
SameClosureUpdate(o) ==
  /\ o.kind = "update" /\ o.prev.exists
  /\ o.prev.orgs = standardizeAdministrationOrgs(o.prev.orgs)
  /\ standardizeAdministrationOrgs(o.in) = o.prev.orgs

\* C35: a synchronous update whose supplied org lists have the same closure
\* as the stored exhaustive lists removes no user's assignment in any of
\* its steps
C35_NoRemovalUnderSameClosure ==
  [][(SameClosureUpdate(op) /\ op.pc \notin {"idle", "done"})
       => \A u \in Users : asg[u][op.a].exists => asg'[u][op.a].exists]_vars

(***************************************************************************)
(* Properties of the task function.                                        *)
(***************************************************************************)
\* C36: when a chunk fails inside the task-dispatched function the
\* invocation fails, so the task stays with the queue for its retry; a task
\* leaves the queue as completed only when its chunk succeeded
C36_FailedTaskIsRetried ==
  [][\A t \in tasks :
       (t \notin tasks' /\ lastInv'.kind = "inv" /\ lastInv'.viaTask)
          => lastInv'.success]_vars

\* C37: the created user ids that the chunk handler accumulates in add mode
\* are exactly the users whose assignment write was committed, each once,
\* also when a transaction fails after its callback has run
C37_CreatedAreCommitted ==
  (lastInv.kind = "inv" /\ lastInv.mode = "add")
     => lastInv.userIds = lastInv.committed

(***************************************************************************)
(* Properties of the two rollback runs of createAssignments.               *)
(***************************************************************************)
\* createAssignments has thrown after rollbackAssignmentCreation and
\* rollbackAdministrationCreation both ran in the loop
RolledBackTwice ==
  op.pc = "done" /\ op.failedIn = "chunk" /\ op.rbTwice

\* C38: when a chunk fails in createAssignments and both rollbacks ran in
\* the loop, the catch block runs them a second time; the state after the
\* second run equals the state after the first and the error thrown is the
\* error of the chunk
C38_SecondRollbackChangesNothing ==
  RolledBackTwice => (op.rbSame /\ op.err = "chunk")

\* C38 witness: a creation with users written by an earlier chunk has been
\* rolled back in the loop and again in the catch block, and the document
\* and the assignments are gone
C38_Witness ==
  /\ RolledBackTwice /\ op.kind = "create"
  /\ Len(op.allCreatedUserIds) > 0
  /\ ~admins[op.a].exists
  /\ \A u \in Users : ~asg[u][op.a].exists

(***************************************************************************)
(* Properties of the callers of the new permission system.                 *)
(***************************************************************************)
\* the caller uses the new permission system and the capability check
\* permits the action at the requested site
PermittedByNewSystem ==
  /\ calc.kind = "call"
  /\ calc.req.uid /\ calc.req.useNewPermissions
  /\ calc.req.siteId /\ calc.req.allowed

\* C39: a caller for whom the new permission system is enabled and who is
\* permitted at the requested site is not rejected with permission-denied
\* for lacking the legacy admin or super_admin flag in the userClaims
\* document, as is the case for an administrator created by
\* _createAdministratorWithRoles
C39_PermittedCallerNotDenied ==
  (PermittedByNewSystem
     \* "plain" is the document _createAdministratorWithRoles writes
     /\ calc.world.userClaims \in {"plain", "admin", "super_admin"})
    => calc.out.error # "permission-denied"

(***************************************************************************)
(* Properties of the administrator's roles.                                *)
(***************************************************************************)
\* C40: after removeAdministratorRoles(admin, site) has completed, the
\* administrator has no role for the site in the user document or in the
\* custom claims, and the site's administrators list contains no active
\* entry for the administrator, whatever creations and updates came before
C40_RemovedFromSite ==
  roster.last.kind = "remove" =>
    LET s == roster.last.siteId
    IN /\ \A i \in 1..Len(roster.roles) : roster.roles[i].siteId # s
       /\ \A i \in 1..Len(roster.claims) : roster.claims[i].siteId # s
       /\ \A e \in roster.administrators[s] : e.status # "active"

(***************************************************************************)
(* Properties of upsertOrg.                                                *)
(***************************************************************************)
\* C26: cohort parents.  Every group document whose parent is set has a
\* district as its parent.
C26_GroupParentIsDistrict ==
  \A g \in GroupIds :
     (orgDocs.groups[g].exists /\ orgDocs.groups[g].parentOrgId # "none")
        => orgDocs.groups[g].parentOrgId \in Districts

\* C26, the rejection: a create or update that carries a parentOrgType
\* other than district answers invalid-argument and writes nothing
T_C26_OtherTypeRejected ==
  (lastInv.kind = "upsertOrg" /\ lastInv.parentOrgType \notin {"none", "district"}
     /\ (lastInv.g # "none" => lastInv.before.groups[lastInv.g].exists))
    => (lastInv.error = "invalid-argument" /\ orgDocs = lastInv.before)


\* C32: parent and child lists.  Every group that stores a parent is
\* listed in that parent's subGroups and in no other unit's.
C32_ParentListsChild ==
  \A g \in GroupIds :
     (orgDocs.groups[g].exists /\ orgDocs.groups[g].parentOrgId # "none")
        => /\ orgDocs.groups[g].parentOrgId \in ParentDocs
           /\ \A p \in ParentDocs :
                 g \in orgDocs.subGroups[p] <=> p = orgDocs.groups[g].parentOrgId

(***************************************************************************)
(* Properties of the pure computations.                                    *)
(***************************************************************************)
\* C14: the event handler chooses its branch from the before/after
\* snapshots alone: created runs the new-administration branch, deleted the
\* removed-administration branch, modified the modified-administration
\* branch, and an event with neither snapshot returns without a write.
C14_PathFromSnapshots ==
  calc.kind = "event" =>
    /\ (~calc.before.exists /\ calc.after.exists) <=> calc.path = "new"
    /\ (calc.before.exists /\ ~calc.after.exists) <=> calc.path = "removed"
    /\ (calc.before.exists /\ calc.after.exists) <=> calc.path = "modified"
    /\ (~calc.before.exists /\ ~calc.after.exists) <=>
          (calc.path = "none" /\ ~calc.writes)

\* C14 witness: a deletion event has run the removed-administration branch
C14_Witness ==
  /\ calc.kind = "event" /\ calc.before.exists /\ ~calc.after.exists
  /\ calc.path = "removed"

\* C16: diff completeness.  For every kind of either list the removed set
\* is prev \ curr and (user diff) the added set is curr \ prev.
DiffComplete(c, withAdded) ==
  \A kind \in DOMAIN c.prev \cup DOMAIN c.curr :
     /\ ListOf(c.removed, kind) = ListOf(c.prev, kind) \ ListOf(c.curr, kind)
     /\ withAdded =>
          ListOf(c.added, kind) = ListOf(c.curr, kind) \ ListOf(c.prev, kind)

====
